---------------------------- MODULE Spec2Model ----------------------------
(***************************************************************************)
(* Model of the streaming buffer engine of rx-player:                      *)
(*   - the segment timeline index   (src/src/manifest/indexes/timeline.js) *)
(*   - the seekings sampler         (src/unnamed/part_000)                 *)
(*   - the Buffer (segment scheduler, source buffer lock, garbage          *)
(*     collector)                   (src/unnamed/part_001)                 *)
(* Each subsystem has its own specification over its own variables; the    *)
(* variables of the other subsystems stay at their idle value.             *)
(***************************************************************************)
EXTENDS Integers, Sequences, FiniteSets, TLC

VARIABLES
  tl,           \* timeline index under test: the index, the last query, its result
  sk,           \* seekings sampler: subscription, skip counter, emissions
  sourceBuffer, \* the media sink: updating flag, outstanding operation, buffered
  ranges,       \* the Buffer's own Buffered Range Map
  buffer,       \* the Buffer observable: switchMap state and the inner buffer
  output,       \* the Buffer's output: events of the last action, final error
  history,      \* bookkeeping of the run, read by the properties only
  abr           \* the ABR manager: its choosers, its options, what arrived

vars == <<tl, sk, sourceBuffer, ranges, buffer, output, history, abr>>
bufferVars == <<sourceBuffer, ranges, buffer, output, history>>

(***************************************************************************)
(* Generic helpers                                                         *)
(***************************************************************************)
Max(a, b) == IF a >= b THEN a ELSE b
Min(a, b) == IF a <= b THEN a ELSE b

\* The value of the variables of a subsystem the specification is not about.
IdleTl == [pc |-> "off"]
IdleSk == [pc |-> "off"]
IdleAbr == [pc |-> "off"]
BufferIdle ==
  /\ sourceBuffer = [pc |-> "off"]
  /\ ranges = <<>>
  /\ buffer = [pc |-> "off"]
  /\ output = [pc |-> "off"]
  /\ history = [pc |-> "off"]

\* JavaScript Infinity: larger than every finite quantity of the model.
Infinity == 1000000

(***************************************************************************)
(* Segment timeline index: src/src/manifest/indexes/timeline.js            *)
(***************************************************************************)

\* A repeat count as JavaScript computes it: a number, NaN or Infinity.
Num(n) == [kind |-> "num", n |-> n]
NaN == [kind |-> "nan", n |-> 0]
Inf == [kind |-> "inf", n |-> 0]

\* a > rep and a <= rep for an integer a, with the IEEE rules for NaN.
GreaterThan(a, rep) ==
  CASE rep.kind = "num" -> a > rep.n
    [] rep.kind = "inf" -> FALSE
    [] rep.kind = "nan" -> FALSE
LessOrEqual(a, rep) ==
  CASE rep.kind = "num" -> a <= rep.n
    [] rep.kind = "inf" -> TRUE
    [] rep.kind = "nan" -> FALSE

\* helpers.js normalizeRange: seconds to ticks of the index.
normalizeRange(index, up, to) ==
  [up |-> up * index.timescale - index.presentationTimeOffset,
   to |-> to * index.timescale - index.presentationTimeOffset]

\* helpers.js getTimelineRangeEnd: end of an entry, repetitions included.
getTimelineRangeEnd(seg) == seg.ts + (seg.r + 1) * seg.d

\* Binary search of the entry containing ts: index (0-based) of the last
\* entry whose ts is strictly below the wanted ts, or 0.
RECURSIVE BinarySearch(_, _, _, _)
BinarySearch(timeline, ts, low, high) ==
  IF low < high
  THEN LET mid == (low + high) \div 2
       IN IF timeline[mid + 1].ts < ts
          THEN BinarySearch(timeline, ts, mid + 1, high)
          ELSE BinarySearch(timeline, ts, low, mid)
  ELSE low

getSegmentIndex(index, ts) ==
  LET low == BinarySearch(index.timeline, ts, 0, Len(index.timeline))
  IN IF low > 0 THEN low - 1 ELSE low

\* Variant that always starts from the first repetition of the entry.
getSegmentNumberFromStart(up, ts, duration) == 0

getSegmentNumber(up, ts, duration) ==
  LET diff == up - ts
  IN IF diff > 0 THEN diff \div duration ELSE 0

\* ceil(a / b) for b > 0
CeilDiv(a, b) == -((-a) \div b)

\* getRepeat(seg, nextSeg): hasNext tells whether nextSeg is defined. The
\* timeline entries carry {ts, d, r} and no field t, so nextSeg.t is undefined
\* and the arithmetic on it yields NaN.
getRepeat(seg, hasNext) ==
  LET rep == seg.r
  IN IF rep < 0
     THEN IF hasNext THEN NaN ELSE Inf
     ELSE Num(rep)

Segment(repId, time, duration, isOpen, number) ==
  [id |-> <<repId, time>>, time |-> time, duration |-> duration,
   open |-> isOpen, init |-> FALSE, number |-> number]

\* The two nested loops of getSegments. timelineIndex is the 0-based index as
\* in the source, before its ++.
RECURSIVE SegmentsLoop(_, _, _, _, _, _, _)
RECURSIVE SegmentsWhile(_, _, _, _, _, _, _, _, _)
SegmentsLoop(repId, index, up, to, timelineIndex, number, maxDuration) ==
  LET timeline == index.timeline
      ti == timelineIndex + 1
  IN IF ti >= Len(timeline)
     THEN <<>>
     ELSE LET number1 == number + 1
              segmentRange == timeline[ti + 1]
              d == segmentRange.d
              ts == segmentRange.ts
              maxD == Max(maxDuration, d)
          IN IF d < 0
             THEN IF ts + maxD < to
                  THEN <<Segment(repId, ts, 0, TRUE, number1)>>
                  ELSE <<>>
             ELSE LET repeat == getRepeat(segmentRange, ti + 1 < Len(timeline))
                      segmentNumber == getSegmentNumber(up, ts, d)
                  IN IF GreaterThan(segmentNumber, repeat)
                     THEN SegmentsLoop(repId, index, up, to, ti,
                                       number1 + repeat.n, maxD)
                     ELSE SegmentsWhile(repId, index, up, to, ti, number1,
                                        maxD, segmentNumber, repeat)

SegmentsWhile(repId, index, up, to, ti, number, maxD, segmentNumber, repeat) ==
  LET segmentRange == index.timeline[ti + 1]
      segmentTime == segmentRange.ts + segmentNumber * segmentRange.d
  IN IF segmentTime < to
     THEN IF LessOrEqual(segmentNumber, repeat)
          THEN <<Segment(repId, segmentTime, segmentRange.d, FALSE, number + 1)>>
               \o SegmentsWhile(repId, index, up, to, ti, number + 1, maxD,
                                segmentNumber + 1, repeat)
          ELSE SegmentsLoop(repId, index, up, to, ti, number, maxD)
     ELSE <<>>

getSegments(repId, index, up, to) ==
  LET nr == normalizeRange(index, up, to)
      timeline == index.timeline
      maxDuration == IF Len(timeline) > 0 /\ timeline[1].d # 0
                     THEN timeline[1].d ELSE 0
      number == index.startNumber - 1
  IN SegmentsLoop(repId, index, nr.up, nr.to,
                  getSegmentIndex(index, nr.up) - 1, number, maxDuration)

\* A number of seconds as an exact fraction in lowest terms.
RECURSIVE GCD(_, _)
GCD(a, b) == IF b = 0 THEN a ELSE GCD(b, a % b)
Seconds(num, den) ==
  LET g == GCD(IF num < 0 THEN -num ELSE num, den)
  IN [num |-> num \div g, den |-> den \div g]
MinusOne == Seconds(-1, 1)

\* An index that never reports a discontinuity.
noDiscontinuity(index, halves) == MinusOne

\* checkDiscontinuity(index, _time). _time is given in half seconds
\* (halves / 2 seconds) so that times between two ticks are exact: the
\* comparisons of the source are made on 2 * time and 2 * ts.
checkDiscontinuity(index, halves) ==
  LET timeline == index.timeline
      timescale == index.timescale
      time2 == halves * timescale
      doubled == [index EXCEPT !.timeline =
                    [i \in DOMAIN timeline |-> [timeline[i] EXCEPT !.ts = 2 * @]]]
      segmentIndex == getSegmentIndex(doubled, time2)
  IN IF time2 <= 0 THEN MinusOne
     ELSE IF segmentIndex < 0 \/ segmentIndex >= Len(timeline) - 1
     THEN MinusOne
     ELSE LET range == timeline[segmentIndex + 1]
              rangeUp == range.ts
              rangeTo == getTimelineRangeEnd(range)
              nextRange == timeline[segmentIndex + 2]
          IN IF range.d = -1 THEN MinusOne
             ELSE IF /\ rangeTo # nextRange.ts
                     /\ time2 >= 2 * rangeUp
                     /\ time2 <= 2 * rangeTo
                     /\ 2 * rangeTo - time2 < 2 * timescale
                  THEN Seconds(nextRange.ts, timescale)
                  ELSE MinusOne

(***************************************************************************)
(* Buffered Range Map (./ranges, BufferedRanges): a sorted sequence of      *)
(* disjoint ranges [start, end) tagged with a bitrate.                     *)
(***************************************************************************)
NoBitrate == -1

RECURSIVE SortedSeq(_)
SortedSeq(S) ==
  IF S = {} THEN <<>>
  ELSE LET m == CHOOSE x \in S : \A y \in S : x <= y
       IN <<m>> \o SortedSeq(S \ {m})

RangeBounds(rs) == UNION {{rs[i].start, rs[i].end} : i \in DOMAIN rs}

\* Whether t lies in one of the ranges, and the bitrate tag found there.
Covers(rs, t) == \E i \in DOMAIN rs : rs[i].start <= t /\ t < rs[i].end
BitrateAt(rs, t) ==
  IF Covers(rs, t)
  THEN rs[CHOOSE i \in DOMAIN rs : rs[i].start <= t /\ t < rs[i].end].bitrate
  ELSE NoBitrate

\* Adjacent ranges with equal bitrate are coalesced.
RECURSIVE Coalesce(_)
Coalesce(rs) ==
  IF Len(rs) <= 1 THEN rs
  ELSE LET rest == Coalesce(Tail(rs))
           h == Head(rs)
       IN IF h.end = rest[1].start /\ h.bitrate = rest[1].bitrate
          THEN <<[h EXCEPT !.end = rest[1].end]>> \o Tail(rest)
          ELSE <<h>> \o rest

\* The ranges obtained by tagging each elementary piece between two
\* consecutive bounds with tag[piece start]; pieces tagged NoBitrate are
\* not part of the result.
Pieces(points, tag) ==
  LET all == [i \in 1..(Len(points) - 1) |->
                [start |-> points[i], end |-> points[i + 1],
                 bitrate |-> tag[points[i]]]]
  IN SelectSeq(all, LAMBDA r : r.bitrate # NoBitrate)

\* insert(bitrate, start, end): the new range wins on overlap; neighbours
\* with a different bitrate are trimmed or split, neighbours with the same
\* bitrate are merged.
insert(rs, bitrate, start, end) ==
  IF start >= end THEN rs
  ELSE LET points == RangeBounds(rs) \cup {start, end}
           tag == [t \in points |-> IF start <= t /\ t < end THEN bitrate ELSE BitrateAt(rs, t)]
       IN Coalesce(Pieces(SortedSeq(points), tag))

\* The sink's remove(start, end).
removeRange(rs, start, end) ==
  IF start >= end THEN rs
  ELSE LET points == RangeBounds(rs) \cup {start, end}
           tag == [t \in points |-> IF start <= t /\ t < end THEN NoBitrate ELSE BitrateAt(rs, t)]
       IN Coalesce(Pieces(SortedSeq(points), tag))

\* intersect(other): what remains of rs inside other, with the tags of rs.
intersect(rs, other) ==
  LET points == RangeBounds(rs) \cup RangeBounds(other)
      tag == [t \in points |-> IF Covers(other, t) THEN BitrateAt(rs, t) ELSE NoBitrate]
  IN Coalesce(Pieces(SortedSeq(points), tag))

\* equals(other): same ranges, bitrate tags ignored.
equals(rs, other) ==
  /\ Len(rs) = Len(other)
  /\ \A i \in DOMAIN rs :
       rs[i].start = other[i].start /\ rs[i].end = other[i].end

\* getRange(t): <<range>> for the range containing t, <<>> if none.
getRange(rs, t) == SelectSeq(rs, LAMBDA r : r.start <= t /\ t < r.end)
getOuterRanges(rs, t) == SelectSeq(rs, LAMBDA r : ~(r.start <= t /\ t < r.end))

\* getGap(t): distance from t to the end of its range, Infinity outside.
getGap(rs, t) ==
  LET r == getRange(rs, t)
  IN IF Len(r) > 0 THEN r[1].end - t ELSE Infinity

\* hasRange(start, duration): <<range>> for a range containing
\* [start, start + duration], <<>> if none.
hasRange(rs, start, duration) ==
  SelectSeq(rs, LAMBDA r : r.start <= start /\ start + duration <= r.end)

\* The union of rs is a subset of the union of other.
RangesSubset(rs, other) ==
  \A i \in DOMAIN rs :
    \E j \in DOMAIN other :
      other[j].start <= rs[i].start /\ rs[i].end <= other[j].end

(***************************************************************************)
(* Buffer: src/unnamed/part_001. Pure parts.                               *)
(***************************************************************************)
\* 1.5, as tenths.
BITRATE_REBUFFERING_RATIO_X10 == 15
GC_GAP_CALM == 240
GC_GAP_BEEFY == 30

\* A Buffer that treats no type as audio or video.
neverAVBuffer(bufferType) == FALSE
isAVBuffer(bufferType) == bufferType = "audio" \/ bufferType = "video"
LOW_WATER_MARK_PAD(bufferType) == IF bufferType = "video" THEN 4 ELSE 1
HIGH_WATER_MARK_PAD(bufferType) == IF bufferType = "video" THEN 6 ELSE 1

\* The representations of the adaptation: id and bitrate.
Representations == {[id |-> 1, bitrate |-> 500], [id |-> 2, bitrate |-> 2000]}

\* The content played. The index of a representation: one timeline entry,
\* two segments of 40 s, so that the garbage collector (30 s around the
\* position at its most aggressive) has something to remove.
BufferIndex ==
  [timeline |-> <<[ts |-> 0, d |-> 40, r |-> 1]>>,
   timescale |-> 1, presentationTimeOffset |-> 0, startNumber |-> 0]
SegDur == BufferIndex.timeline[1].d
IndexEnd == getTimelineRangeEnd(BufferIndex.timeline[1])

\* index-handler: the init segment of a representation (no time).
getInitSegment(representation) ==
  [id |-> <<representation.id, -1>>, time |-> -1, duration |-> 0,
   open |-> FALSE, init |-> TRUE, number |-> 0]

\* index-handler: whether getSegments(ts, ...) throws OutOfIndexError.
isOutOfIndex(ts) ==
  \/ ts < BufferIndex.timeline[1].ts
  \/ ts > getTimelineRangeEnd(BufferIndex.timeline[Len(BufferIndex.timeline)])

\* index-handler: getSegments(ts, offset, bufSize).
indexGetSegments(representation, ts, offset, bufSize) ==
  getSegments(representation.id, BufferIndex, ts + offset, ts + offset + bufSize)

\* A collector that frees every buffered range whole, the one around the
\* position included.
selectWholeRanges(ts, buffered, gcGap) ==
  [i \in DOMAIN buffered |->
     [start |-> buffered[i].start, end |-> buffered[i].end]]

\* selectGCedRanges({ts, buffered}, gcGap)
selectGCedRanges(ts, buffered, gcGap) ==
  LET innerRange == getRange(buffered, ts)
      outerRanges == getOuterRanges(buffered, ts)
      outerCleaned ==
        SelectSeq(outerRanges,
                  LAMBDA r : \/ ts - gcGap < r.end
                             \/ ts + gcGap > r.start)
      before == IF Len(innerRange) > 0 /\ ts - gcGap > innerRange[1].start
                THEN <<[start |-> innerRange[1].start, end |-> ts - gcGap]>>
                ELSE <<>>
      after == IF Len(innerRange) > 0 /\ ts + gcGap < innerRange[1].end
               THEN <<[start |-> ts + gcGap, end |-> innerRange[1].end]>>
               ELSE <<>>
  IN [i \in DOMAIN outerCleaned |->
        [start |-> outerCleaned[i].start, end |-> outerCleaned[i].end]]
     \o before \o after

\* The ranges bufferGarbageCollector removes for a timing.
gcCleanedupRanges(ts, buffered) ==
  LET calm == selectGCedRanges(ts, buffered, GC_GAP_CALM)
  IN IF Len(calm) = 0
     THEN selectGCedRanges(ts, buffered, GC_GAP_BEEFY)
     ELSE calm

\* A filter that looks at the queued set only.
filterQueuedOnly(segment, queuedSegments, rangesMap, representation) ==
  segment.id \notin queuedSegments

\* filterAlreadyLoaded(segment)
filterAlreadyLoaded(segment, queuedSegments, rangesMap, representation) ==
  IF segment.id \in queuedSegments THEN FALSE
  ELSE IF segment.init \/ segment.time < 0 THEN TRUE
  ELSE LET range == hasRange(rangesMap, segment.time, segment.duration)
       IN IF Len(range) > 0
          THEN range[1].bitrate * BITRATE_REBUFFERING_RATIO_X10
                 < representation.bitrate * 10
          ELSE TRUE

\* A timing whose duration is undefined or NaN.
NoDuration == -1

\* The size of the injection window: (timing.duration || Infinity) is
\* Infinity for every falsy duration, the number 0 included.
wantedBufferSizeOf(timing, bufferSize) ==
  LET endDiff == IF timing.duration = NoDuration \/ timing.duration = 0
                 THEN Infinity
                 ELSE timing.duration - timing.ts
  IN Max(0, Min(bufferSize, Min(timing.liveGap, endDiff)))

\* The padding applied to the timestamp.
timestampPaddingOf(buffered, rangesMap, timing, bufferType, representation) ==
  LET bufferGap == getGap(buffered, timing.ts)
      pad0 == IF bufferGap > LOW_WATER_MARK_PAD(bufferType) /\ bufferGap < Infinity
              THEN Min(bufferGap, HIGH_WATER_MARK_PAD(bufferType))
              ELSE 0
      currentRange == getRange(rangesMap, timing.ts)
  IN IF /\ Len(currentRange) > 0
        /\ currentRange[1].bitrate = representation.bitrate
        /\ currentRange[1].end - timing.ts > pad0
     THEN currentRange[1].end - timing.ts
     ELSE pad0

\* getSegmentsListToInject(buffered, timing, bufferSize, withInitSegment)
\* when the index does not throw.
getSegmentsListToInject(buffered, rangesMap, timing, bufferSize, withInitSegment, bufferType, representation) ==
  LET segments == IF withInitSegment
                  THEN <<getInitSegment(representation)>> ELSE <<>>
  IN IF timing.readyState = 0
     THEN segments
     ELSE segments \o
          indexGetSegments(representation, timing.ts,
            timestampPaddingOf(buffered, rangesMap, timing, bufferType,
                               representation),
            wantedBufferSizeOf(timing, bufferSize))

\* Whether the tick throws OutOfIndexError: the index is only asked when the
\* media is ready.
tickThrows(timing) == timing.readyState # 0 /\ isOutOfIndex(timing.ts)

(***************************************************************************)
(* Buffer: src/unnamed/part_001. The observable chain as a state machine.  *)
(* Every action is one event of the single-threaded run: the delivery of   *)
(* one value to the chain, with all the synchronous work it causes.        *)
(***************************************************************************)
\* Bound of the run: the number of disturbances, which are the emissions of
\* representations and seekings after the first one and the injected faults
\* (errors of the sink and of the pipeline).
MaxDisturbances == 2

BufferTypes == {"video", "text"}
TimingTs == {0, SegDur, IndexEnd + SegDur}
BufferSizes == {SegDur, IndexEnd}
\* The timings of the clock: the media not ready yet (readyState 0), or
\* ready at one of the positions; no duration yet (0), not live.
Timings ==
  {[ts |-> 0, readyState |-> 0, duration |-> 0, liveGap |-> Infinity]}
  \cup {[ts |-> ts, readyState |-> 1, duration |-> 0, liveGap |-> Infinity] :
          ts \in TimingTs}

NoRep == [id |-> 0, bitrate |-> 0]
NoOp == [kind |-> "none", range |-> <<>>]

\* The range of media time a blob holds: none for an init segment.
blobRange(segment) ==
  IF segment.init THEN <<>>
  ELSE <<[start |-> segment.time, end |-> segment.time + segment.duration]>>

\* The errors of the run: name and code.
QuotaExceededError == [name |-> "QuotaExceededError", code |-> 22]
InvalidStateError == [name |-> "InvalidStateError", code |-> 11]
AppendError == [name |-> "AppendError", code |-> 0]
BufferErrorEvent == [name |-> "Error", code |-> 0]
RequestError(code) == [name |-> "RequestError", code |-> code]
OutOfIndexError == [name |-> "OutOfIndexError", code |-> 0]
NoError == [name |-> "none", code |-> 0]

\* State of the concatMap that appends: idle, waiting for the lock, append
\* outstanding, garbage collector waiting for a timing, garbage collector
\* removing (rm: the current remove; retry: the append of the retried blob).
IdleApp ==
  [st |-> "idle", item |-> <<>>, todo |-> <<>>, cur |-> <<>>,
   rm |-> "none", retry |-> "none", retries |-> 0]

\* The whole Buffer state as one value.
World ==
  [sb |-> sourceBuffer, ranges |-> ranges, b |-> buffer, out |-> output,
   h |-> history]

Commit(w) ==
  /\ sourceBuffer' = w.sb
  /\ ranges' = w.ranges
  /\ buffer' = w.b
  /\ output' = w.out
  /\ history' = w.h
  /\ UNCHANGED <<tl, sk, abr>>

\* Start of an action: the bookkeeping of the previous action is reset.
\* initHanded is kept: whether the running inner buffer has handed its
\* init segment to the pipeline.
Begin ==
  [World EXCEPT !.h.justAppended = FALSE, !.h.handed = {}, !.h.calls = 0,
                !.h.failed = NoError, !.h.gcRetries = -1, !.out.emitted = <<>>]

Event(type, gen, id, w) ==
  [type |-> type, gen |-> gen, cur |-> w.b.gen, id |-> id]

EmitEvent(w, e) ==
  [w EXCEPT !.out.emitted = Append(@, e)]

\* Unsubscription of an inner representation buffer: its pipelines and
\* its listeners on the source buffer are gone.
Unsubscribed(b) ==
  [b EXCEPT !.toFetch = <<>>, !.fetching = <<>>, !.toAppend = <<>>,
            !.app = IdleApp]

\* What switchMap does to the running inner buffer on a new value; the
\* variant keeps it subscribed, as mergeMap would.
keepPreviousInner(b) == b
switchMapTeardown(b) == Unsubscribed(b)

\* new ArraySet() of createRepresentationBuffer; the variant reuses the set
\* of the previous inner buffer.
reusedQueuedSegments(previous) == previous
newQueuedSegments(previous) == {}

\* An error that reaches the output of the Buffer: the stream terminates.
Fatal(w, err) ==
  [w EXCEPT !.b = [Unsubscribed(@) EXCEPT !.status = "error",
                                          !.queuedSegments = {}],
            !.out.err = err]

\* The catch of createRepresentationBuffer: a 412 becomes a
\* precondition-failed event followed by the 2 s timer, anything else is
\* thrown again.
PreconditionFailed(w) ==
  EmitEvent([w EXCEPT !.b = [Unsubscribed(@) EXCEPT !.status = "backoff"]],
            Event("precondition-failed", w.b.gen, <<0, 412>>, w))

catchEverything(w, err) == PreconditionFailed(w)
catch412(w, err) ==
  IF err.code # 412 THEN Fatal(w, err) ELSE PreconditionFailed(w)

\* outOfIndexStream.next of the catch around the lookup of the segments; the
\* variant drops the error.
swallowOutOfIndex(w, ts) == w
reinjectOutOfIndex(w, ts) ==
  EmitEvent(w, Event("out-of-index", w.b.gen, <<0, ts>>, w))

\* concatMap(pipeline) holds the values that arrive while it is busy and
\* takes them first in, first out; the variant takes the newest first.
newestFirstBuffer(held, arrived) == arrived \o held
concatMapBuffer(held, arrived) == held \o arrived

\* What .concat(timer(2000)) puts on the output when the timer expires;
\* the variant is a timer whose value is ignored.
ignoredTimerValue(w) == w
timerValue(w) ==
  EmitEvent(w, Event("timer-value", w.b.gen, <<0, 0>>, w))

\* withInitSegment = (count === 0): the init segment is asked for on the
\* first iteration of the flatMap of an inner buffer only; the variant asks
\* for it on every iteration.
alwaysWithInitSegment(first) == TRUE
withInitSegment(first) == first

\* lockedBufferFunction: whether the call waits for the next update; the
\* variant never waits.
neverLocked(updating) == FALSE
lockedBufferFunction(updating) == updating

\* sourceBuffer.appendBuffer(blob) and what follows it. stage is "first" for
\* the append of the concatMap, "retry" for the append that follows a
\* remove of the garbage collector. outcome is what the sink answers.
appendBuffer(w, item, stage, outcome) ==
  IF w.sb.updating
  THEN catch412([w EXCEPT !.h.breach = TRUE], InvalidStateError)
  ELSE CASE outcome = "ok" ->
              [w EXCEPT !.sb.updating = TRUE,
                        !.sb.op = [kind |-> "append",
                                   range |-> blobRange(item.segment)],
                        !.h.calls = @ + 1,
                        !.b.app = IF stage = "first"
                                  THEN [IdleApp EXCEPT !.st = "appending",
                                                       !.item = <<item>>]
                                  ELSE [@ EXCEPT !.retry = "running",
                                                 !.retries = @ + 1]]
         [] outcome = "quota" ->
              IF stage = "first"
              THEN [w EXCEPT !.h.disturbances = @ + 1,
                             !.h.calls = @ + 1,
                             !.b.app = [IdleApp EXCEPT !.st = "gctiming",
                                                       !.item = <<item>>]]
              ELSE catch412([w EXCEPT !.h.disturbances = @ + 1,
                                      !.h.calls = @ + 1,
                                      !.h.failed = QuotaExceededError],
                            QuotaExceededError)
         [] outcome = "error" ->
              catch412([w EXCEPT !.h.disturbances = @ + 1,
                                 !.h.calls = @ + 1,
                                 !.h.failed = AppendError],
                       AppendError)

lockedAppendBuffer(w, item, stage, outcome) ==
  IF lockedBufferFunction(w.sb.updating)
  THEN [w EXCEPT !.b.app = IF stage = "first"
                           THEN [IdleApp EXCEPT !.st = "lockwait",
                                                !.item = <<item>>]
                           ELSE [@ EXCEPT !.retry = "wait"]]
  ELSE appendBuffer(w, item, stage, outcome)

\* sourceBuffer.remove(start, end)
removeBuffer(w, range) ==
  IF w.sb.updating
  THEN catch412([w EXCEPT !.h.breach = TRUE], InvalidStateError)
  ELSE [w EXCEPT !.sb.updating = TRUE,
                 !.sb.op = [kind |-> "remove", range |-> <<range>>],
                 !.h.calls = @ + 1,
                 !.b.app.rm = "running",
                 !.b.app.cur = <<>>]

lockedRemoveBuffer(w, range) ==
  IF lockedBufferFunction(w.sb.updating)
  THEN [w EXCEPT !.b.app.rm = "wait", !.b.app.cur = <<range>>]
  ELSE removeBuffer(w, range)

\* ranges.insert(representation.bitrate, currentSegment.ts, currentSegment.ts
\* + currentSegment.d) of the .map after the append. The parser gives no
\* currentSegment for an init segment and the timing of the segment itself
\* for a media segment. The variant leaves the map as it is.
skipRangesInsert(rangesMap, item) == rangesMap
insertCurrentSegment(rangesMap, item) ==
  IF item.segment.init THEN rangesMap
  ELSE insert(rangesMap, item.representation.bitrate, item.segment.time,
              item.segment.time + item.segment.duration)

\* The .map after the append: the segment leaves the queued set, the map of
\* ranges gets the range of the parsed current segment, the segment event
\* is emitted.
segmentAppended(w, item) ==
  EmitEvent(
    [w EXCEPT !.b.queuedSegments = @ \ {item.segment.id},
              !.ranges = insertCurrentSegment(@, item),
              !.h.justAppended = TRUE],
    Event("segment", item.gen, item.segment.id, w))

\* The concatMap of the appends moves on to its next buffered value.
nextAppend(w, outcome) ==
  IF w.b.toAppend # <<>>
  THEN lockedAppendBuffer([w EXCEPT !.b.toAppend = Tail(@), !.b.app = IdleApp],
                          Head(w.b.toAppend), "first", outcome)
  ELSE [w EXCEPT !.b.app = IdleApp]

\* The observable of the garbage collector and of its retried appends
\* completes.
gcCompleted(w) ==
  [w EXCEPT !.h.gcRetries = w.b.app.retries]

\* The sink completes its outstanding operation: its buffered ranges change.
sinkBuffered(sb) ==
  CASE sb.op.kind = "append" /\ sb.op.range # <<>> ->
         insert(sb.buffered, 0, sb.op.range[1].start, sb.op.range[1].end)
    [] sb.op.kind = "remove" ->
         removeRange(sb.buffered, sb.op.range[1].start, sb.op.range[1].end)
    [] OTHER -> sb.buffered

\* The listeners of the inner buffer on the update event, in the order of
\* their subscription to updateEnd.
onUpdate(w, outcome) ==
  LET app == w.b.app
  IN IF w.b.status # "running" THEN w
     ELSE CASE app.st = "lockwait" ->
                 appendBuffer(w, app.item[1], "first", outcome)
            [] app.st = "appending" ->
                 nextAppend(segmentAppended(w, app.item[1]), outcome)
            [] app.st = "gc" /\ app.retry = "running" ->
                 \* the retried append is done: its segment event goes out,
                 \* then the remove that waited for the lock is issued
                 LET w1 == segmentAppended([w EXCEPT !.b.app.retry = "none"],
                                           app.item[1])
                 IN IF app.rm = "wait"
                    THEN removeBuffer(w1, app.cur[1])
                    ELSE nextAppend(gcCompleted(w1), outcome)
            [] app.st = "gc" /\ app.retry = "wait" ->
                 appendBuffer(w, app.item[1], "retry", outcome)
            [] app.st = "gc" /\ app.retry = "none" /\ app.rm = "running" ->
                 \* a remove is done: flatMap appends the blob again, then
                 \* concatAll subscribes to the next remove
                 LET w1 == lockedAppendBuffer([w EXCEPT !.b.app.rm = "none"],
                                              app.item[1], "retry", outcome)
                 IN IF w1.b.status # "running" \/ app.todo = <<>>
                    THEN w1
                    ELSE lockedRemoveBuffer(
                           [w1 EXCEPT !.b.app.todo = Tail(@)], Head(app.todo))
            [] app.st = "gc" /\ app.retry = "none" /\ app.rm = "wait" ->
                 removeBuffer(w, app.cur[1])
            [] OTHER -> w

\* Whether the run may still be disturbed.
MayDisturb == history.disturbances < MaxDisturbances

\* What the sink may answer to an appendBuffer call.
Outcomes == IF MayDisturb THEN {"ok", "quota", "error"} ELSE {"ok"}

BufInit ==
  /\ sourceBuffer = [updating |-> FALSE, op |-> NoOp, buffered |-> <<>>]
  /\ ranges = <<>>
  /\ \E bufferType \in BufferTypes :
       buffer = [status |-> "waiting", bufferType |-> bufferType,
                 latest |-> NoRep, rep |-> NoRep, gen |-> 0, first |-> TRUE,
                 queuedSegments |-> {}, toFetch |-> <<>>, fetching |-> <<>>,
                 toAppend |-> <<>>, app |-> IdleApp]
  /\ output = [emitted |-> <<>>, err |-> NoError]
  /\ history = [justAppended |-> FALSE, handed |-> {},
                calls |-> 0, failed |-> NoError,
                breach |-> FALSE, disturbances |-> 0,
                gcRetries |-> -1, initHanded |-> FALSE]
  /\ tl = IdleTl
  /\ sk = IdleSk
  /\ abr = IdleAbr

\* switchMap(createRepresentationBuffer) on a value of combineLatest.
createRepresentationBuffer(w, representation) ==
  [w EXCEPT !.h.disturbances = IF w.b.gen = 0 THEN @ ELSE @ + 1,
            !.h.initHanded = FALSE,
            !.b = [switchMapTeardown(@) EXCEPT
                     !.status = "running", !.rep = representation,
                     !.latest = representation,
                     !.gen = @ + 1, !.first = TRUE, !.queuedSegments = {}]]

\* The representations stream emits.
RepresentationEmits ==
  /\ buffer.status # "error"
  /\ buffer.gen = 0 \/ MayDisturb
  /\ \E representation \in Representations \ {buffer.latest} :
       Commit(createRepresentationBuffer(Begin, representation))

\* The seekings stream emits (after its first, synthetic value).
SeekingEmits ==
  /\ buffer.status \in {"running", "backoff"}
  /\ MayDisturb
  /\ Commit(createRepresentationBuffer(Begin, buffer.latest))

\* The 2 s timer of the 412 catch expires: timer(2000) emits its value, the
\* number 0, which concat passes to the output like any value; then it
\* completes and the inner buffer is built again.
TimerFires ==
  /\ buffer.status = "backoff"
  /\ Commit(timerValue(
       [Begin EXCEPT
          !.b.status = "running", !.b.first = TRUE,
          !.h.initHanded = FALSE,
          !.b.queuedSegments = newQueuedSegments(@)]))

\* One iteration of the flatMap of segmentsPipeline on a value of
\* combineLatest(timings, bufferSizes, mutedUpdateEnd): the Buffer after it.
flatMapIteration(timing, bufferSize) ==
  LET ts == timing.ts
      w == Begin
      native == sourceBuffer.buffered
      synced == IF isAVBuffer(buffer.bufferType) /\ ~equals(ranges, native)
                THEN intersect(ranges, native)
                ELSE ranges
      w1 == [w EXCEPT !.ranges = synced, !.b.first = FALSE]
  IN IF tickThrows(timing)
     THEN reinjectOutOfIndex(
            [w1 EXCEPT !.h.disturbances = @ + 1,
                       !.h.failed = OutOfIndexError], ts)
     ELSE LET list == getSegmentsListToInject(native, synced, timing,
                        bufferSize, withInitSegment(buffer.first),
                        buffer.bufferType,
                        buffer.rep)
              injected == SelectSeq(list,
                            LAMBDA seg : filterAlreadyLoaded(seg,
                              buffer.queuedSegments, synced, buffer.rep))
              items == [i \in DOMAIN injected |->
                          [segment |-> injected[i],
                           representation |-> buffer.rep,
                           gen |-> buffer.gen]]
              ids == {injected[i].id : i \in DOMAIN injected}
              idle == buffer.fetching = <<>> /\ buffer.toFetch = <<>>
          IN [w1 EXCEPT
                !.b.queuedSegments = @ \cup ids,
                !.h.handed = ids,
                !.h.initHanded = @ \/ getInitSegment(buffer.rep).id \in ids,
                !.b.fetching = IF idle /\ items # <<>>
                               THEN <<items[1]>> ELSE @,
                !.b.toFetch = IF idle /\ items # <<>>
                              THEN Tail(items)
                              ELSE concatMapBuffer(@, items)]

\* The timings the clock may deliver: one that makes the index throw is a
\* disturbance.
MayTick(timing) == tickThrows(timing) => MayDisturb

\* combineLatest(timings, bufferSizes, mutedUpdateEnd) emits.
Tick ==
  /\ buffer.status = "running"
  /\ \E timing \in Timings, bufferSize \in BufferSizes :
       /\ MayTick(timing)
       /\ Commit(flatMapIteration(timing, bufferSize))

\* The pipeline delivers the parsed segment it was fetching, then completes.
FetchDone ==
  /\ buffer.status = "running"
  /\ buffer.fetching # <<>>
  /\ \E outcome \in (IF buffer.app.st = "idle" THEN Outcomes ELSE {"ok"}) :
       LET w == Begin
           item == buffer.fetching[1]
           w1 == IF buffer.app.st = "idle"
                 THEN lockedAppendBuffer(w, item, "first", outcome)
                 ELSE [w EXCEPT !.b.toAppend = Append(@, item)]
       IN Commit(IF w1.b.status # "running" THEN w1
                 ELSE [w1 EXCEPT
                         !.b.fetching = IF buffer.toFetch # <<>>
                                        THEN <<Head(buffer.toFetch)>> ELSE <<>>,
                         !.b.toFetch = IF buffer.toFetch # <<>>
                                       THEN Tail(@) ELSE @])

\* The pipeline fails.
FetchFails ==
  /\ buffer.status = "running"
  /\ buffer.fetching # <<>>
  /\ MayDisturb
  /\ \E code \in {412, 500} :
       Commit(catch412([Begin EXCEPT
                          !.h.disturbances = @ + 1,
                          !.h.failed = RequestError(code)],
                       RequestError(code)))

\* The sink fires update for its outstanding operation.
SourceBufferUpdate ==
  /\ sourceBuffer.updating
  /\ \E outcome \in (IF buffer.status = "running" /\ buffer.app.st # "idle"
                      THEN Outcomes ELSE {"ok"}) :
       Commit(onUpdate([Begin EXCEPT
                          !.sb = [updating |-> FALSE, op |-> NoOp,
                                  buffered |-> sinkBuffered(sourceBuffer)]],
                       outcome))

\* The sink fires error for its outstanding operation: updateEnd throws for
\* every subscriber, if there is one.
SourceBufferError ==
  /\ sourceBuffer.updating
  /\ buffer.status \in {"running", "backoff"}
  /\ MayDisturb
  /\ LET w == [Begin EXCEPT
                 !.sb = [updating |-> FALSE, op |-> NoOp,
                         buffered |-> sourceBuffer.buffered],
                 !.h.disturbances = @ + 1,
                 !.h.failed = BufferErrorEvent]
     IN Commit(IF buffer.status = "running"
               THEN catch412(w, BufferErrorEvent)
               ELSE w)

\* timings.take(1) of the garbage collector delivers a timing.
GarbageCollectorTiming ==
  /\ buffer.status = "running"
  /\ buffer.app.st = "gctiming"
  /\ \E ts \in TimingTs, outcome \in Outcomes :
       LET w == Begin
           cleanedupRanges == gcCleanedupRanges(ts, sourceBuffer.buffered)
       IN Commit(IF cleanedupRanges = <<>>
                 THEN nextAppend(gcCompleted(w), outcome)
                 ELSE lockedRemoveBuffer(
                        [w EXCEPT !.b.app.st = "gc",
                                  !.b.app.todo = Tail(cleanedupRanges)],
                        Head(cleanedupRanges)))

Next ==
  \/ RepresentationEmits
  \/ SeekingEmits
  \/ TimerFires
  \/ Tick
  \/ FetchDone
  \/ FetchFails
  \/ SourceBufferUpdate
  \/ SourceBufferError
  \/ GarbageCollectorTiming

Spec == BufInit /\ [][Next]_vars

\* Whether a tick can change the state: ENABLED <<Tick>>_vars as a state
\* predicate. A tick that hands nothing, resyncs nothing and finds the
\* per-step record already clear leaves the state as it is.
TickChanges ==
  /\ buffer.status = "running"
  /\ \E timing \in Timings, bufferSize \in BufferSizes :
       /\ MayTick(timing)
       /\ flatMapIteration(timing, bufferSize) # World

\* The Buffer under the scheduling the environment provides: the clock keeps
\* ticking (the flatMap iterates, timings.take(1) of the garbage collector
\* gets its value), a fetch that can succeed does, the sink fires update for
\* its outstanding operation, the 2 s timer expires. Representation
\* changes, seeks and faults are not owed.
\* Weak fairness of Tick and of SourceBufferUpdate is written out by its
\* definition, []<>~ENABLED <<A>>_vars \/ []<><<A>>_vars, with the enabling
\* condition as a state predicate: TickChanges for a tick, an outstanding
\* operation for an update (an update always ends the operation).
Fairness ==
  /\ []<>(~TickChanges) \/ []<><<Tick>>_vars
  /\ []<>(~sourceBuffer.updating) \/ []<><<SourceBufferUpdate>>_vars
  /\ WF_vars(GarbageCollectorTiming)
  /\ WF_vars(FetchDone)
  /\ WF_vars(TimerFires)

SpecLive == BufInit /\ [][Next]_vars /\ Fairness

(***************************************************************************)
(* Properties of the Buffer                                                *)
(***************************************************************************)
\* Everything the running inner buffer holds between the tick that handed
\* it and its segment event.
InnerItems ==
  buffer.toFetch \o buffer.fetching \o buffer.toAppend \o buffer.app.item

\* The segments of the running inner buffer between their enqueueing and
\* their segment event, in the order the chain holds them: the one being
\* appended, those fetched, the one being fetched, those to fetch.
Pipeline ==
  buffer.app.item \o buffer.toAppend \o buffer.fetching \o buffer.toFetch

\* Init segment first, then ascending time.
InBatchOrder(items) ==
  \A i \in 1..(Len(items) - 1) :
    items[i].segment.time < items[i + 1].segment.time

\* C1: within one Buffer instance no appendBuffer and no remove is ever
\* called on the sink while sourceBuffer.updating is true, so at most one
\* mutation of the sink is outstanding, whatever the interleaving of ticks,
\* representation changes, seeks, 412 rebuilds and removals of the garbage
\* collector; a step issues at most one mutation.
C1_MutationsSerialized ==
  /\ history.breach = FALSE
  /\ history.calls <= 1

\* A remove of the garbage collector that had to wait for the retried append
\* has been issued, and is outstanding.
C1_Witness ==
  /\ buffer.app.st = "gc"
  /\ buffer.app.rm = "running"
  /\ buffer.app.retries >= 1
  /\ sourceBuffer.updating
  /\ history.calls = 1

\* C3 (as stated): once the garbage collector that follows a
\* QuotaExceededError has completed, the blob has been appended again
\* exactly once, whatever the number of ranges removed.
C3_RetriedExactlyOnce ==
  history.gcRetries \in {-1, 1}

\* C4 (as stated): after every completed append, the retried ones included,
\* every range of the map of bitrates lies within the ranges the sink holds.
C4_MapWithinSinkAfterAppend ==
  history.justAppended => RangesSubset(ranges, sourceBuffer.buffered)

\* C5: only the inner buffer of the latest emission of representations or
\* seekings is subscribed. Every event that reaches the output comes from
\* the inner buffer that is current when it is emitted, every segment in
\* flight belongs to it and to the latest representation, and the running
\* (or backing off) inner buffer is the one of the latest representation.
C5_OnlyLatestInnerSubscribed ==
  /\ \A i \in DOMAIN output.emitted :
       output.emitted[i].gen = output.emitted[i].cur
  /\ \A i \in DOMAIN InnerItems :
       /\ InnerItems[i].gen = buffer.gen
       /\ InnerItems[i].representation = buffer.latest
  /\ buffer.status \in {"running", "backoff"} => buffer.rep = buffer.latest

\* After a switch the new inner buffer waits for the lock that the
\* operation of the previous inner buffer still holds.
C5_Witness ==
  /\ buffer.gen >= 2
  /\ buffer.status = "running"
  /\ buffer.app.st = "lockwait"
  /\ sourceBuffer.updating

\* C6: a failure of the inner stream with code 412 puts exactly one
\* precondition-failed event on the output and does not end the stream;
\* while the 2 s timer runs nothing is handed to the pipeline, fetched or
\* appended; when the timer fires an inner buffer for the same
\* representation starts with an empty set of queued segments, and counts
\* its ticks from zero again. This holds for each of successive 412s.
C6_PreconditionFailedBackoff ==
  /\ [](history.failed = RequestError(412) =>
          /\ Len(output.emitted) = 1
          /\ output.emitted[1].type = "precondition-failed"
          /\ output.emitted[1].gen = buffer.gen
          /\ output.err = NoError
          /\ buffer.status = "backoff")
  /\ [](buffer.status = "backoff" =>
          /\ InnerItems = <<>>
          /\ history.handed = {}
          /\ history.calls = 0)
  /\ [][(buffer.status = "backoff" /\ buffer'.status = "running"
           /\ buffer'.gen = buffer.gen) =>
          /\ buffer'.queuedSegments = {}
          /\ buffer'.rep = buffer.rep
          /\ buffer'.first]_vars

\* A 412 has just been caught while ids handed before it were queued, after
\* an earlier disturbance of the same inner buffer.
C6_Witness ==
  /\ history.failed = RequestError(412)
  /\ history.disturbances = 2
  /\ buffer.gen = 1
  /\ buffer.status = "backoff"
  /\ buffer.queuedSegments # {}
  /\ Len(output.emitted) = 1

\* C15: within an inner buffer segments reach the sink, and their segment
\* events the output, in the order of their enqueueing. In every step the
\* chain loses segments at its front only and gains those the tick handed
\* at its back, in ascending time order (init segment first); a segment
\* event is for the segment at the front, and an append issued on the sink
\* carries the segment that is at the front afterwards.
C15_AppendedInEnqueueOrder ==
  [][(/\ buffer.status = "running"
      /\ buffer'.status = "running"
      /\ buffer'.gen = buffer.gen) =>
       /\ \E k \in 0..Len(Pipeline) :
            LET kept == SubSeq(Pipeline, k + 1, Len(Pipeline))
                added == SubSeq(Pipeline', Len(kept) + 1, Len(Pipeline'))
            IN /\ Len(Pipeline') >= Len(kept)
               /\ SubSeq(Pipeline', 1, Len(kept)) = kept
               /\ {added[i].segment.id : i \in DOMAIN added} = history'.handed
               /\ Len(added) = Cardinality(history'.handed)
               /\ InBatchOrder(added)
       /\ \A i \in DOMAIN output'.emitted :
            output'.emitted[i].type = "segment" =>
              /\ Pipeline # <<>>
              /\ output'.emitted[i].id = Pipeline[1].segment.id
       /\ (/\ history'.calls = 1
           /\ sourceBuffer'.updating
           /\ sourceBuffer'.op.kind = "append") =>
            /\ Pipeline' # <<>>
            /\ sourceBuffer'.op.range = blobRange(Pipeline'[1].segment)]_vars

\* The first media segment is being appended while the next one, handed
\* after it, waits behind.
C15_Witness ==
  /\ buffer.status = "running"
  /\ buffer.app.st = "appending"
  /\ sourceBuffer.updating
  /\ Len(Pipeline) >= 2
  /\ ~Pipeline[1].segment.init
  /\ Pipeline[1].segment.time < Pipeline[2].segment.time

\* C16 (as stated): every value on the output of the Buffer is a segment
\* event, a precondition-failed event or an out-of-index event.
C16_OnlyEventsEmitted ==
  \A i \in DOMAIN output.emitted :
    output.emitted[i].type \in {"segment", "precondition-failed", "out-of-index"}

\* C7 (as stated): once an inner buffer has emitted an out-of-index event
\* it hands no further segment to the pipeline: when the step that follows
\* the event is one of the same inner buffer, it hands nothing.
C7_InnerTerminatesOnOutOfIndex ==
  [][(history.failed = OutOfIndexError /\ buffer'.gen = buffer.gen) =>
       history'.handed = {}]_vars

\* C7 (amended): the tick whose lookup throws OutOfIndexError puts exactly
\* one out-of-index event on the output, hands nothing to the pipeline and
\* mutates nothing; the inner buffer stays subscribed and the stream goes on.
C7_OutOfIndexReinjected ==
  history.failed = OutOfIndexError =>
    /\ Len(output.emitted) = 1
    /\ output.emitted[1].type = "out-of-index"
    /\ output.emitted[1].gen = buffer.gen
    /\ history.handed = {}
    /\ history.calls = 0
    /\ output.err = NoError
    /\ buffer.status = "running"

\* The lookup of a tick has thrown while the inner buffer was fetching: the
\* segment is still being fetched.
C7_Witness ==
  /\ history.failed = OutOfIndexError
  /\ buffer.fetching # <<>>

\* C8 (as stated): an append error other than QuotaExceededError, an error
\* event of the sink, a failure of the retried append and a pipeline error
\* whose code is not 412 each end the output with that error; none becomes
\* an event and none is dropped.
C8_FatalNeverSwallowed ==
  (/\ history.failed # NoError
   /\ history.failed # OutOfIndexError
   /\ history.failed.code # 412) =>
    /\ buffer.status = "error"
    /\ output.err = history.failed
    /\ output.emitted = <<>>

\* The items the tick that led to the current state handed to the pipeline.
HandedItems ==
  SelectSeq(Pipeline, LAMBDA item : item.segment.id \in history.handed)

\* The range of the Buffered Range Map a segment lies in, if any.
RangeOfSegment(segment) ==
  hasRange(ranges, segment.time, segment.duration)

\* C24: a media segment whose span lies inside a range of the Buffered
\* Range Map is handed to the pipeline only if the bitrate of that range
\* multiplied by 1.5 is strictly below the bitrate of the current
\* representation; a segment buffered at the bitrate of the current
\* representation is not handed.
C24_RebufferingRatioGate ==
  \A i \in DOMAIN HandedItems :
    LET segment == HandedItems[i].segment
    IN (~segment.init /\ RangeOfSegment(segment) # <<>>) =>
         /\ RangeOfSegment(segment)[1].bitrate * 15 < buffer.rep.bitrate * 10
         /\ RangeOfSegment(segment)[1].bitrate # buffer.rep.bitrate

\* A tick has handed a media segment that the map holds at a bitrate low
\* enough for the segment to be fetched again.
C24_Witness ==
  \E i \in DOMAIN HandedItems :
    /\ ~HandedItems[i].segment.init
    /\ RangeOfSegment(HandedItems[i].segment) # <<>>
    /\ RangeOfSegment(HandedItems[i].segment)[1].bitrate > 0


\* The segment ids in flight: handed to the pipeline, segment event not yet
\* emitted for the last time.
InFlight == [i \in DOMAIN Pipeline |-> Pipeline[i].segment.id]

ListToInject(timing, bufferSize) ==
  getSegmentsListToInject(sourceBuffer.buffered, ranges, timing, bufferSize, withInitSegment(buffer.first), buffer.bufferType, buffer.rep)

\* C26: each inner buffer (representation change, seek or 412 rebuild) has
\* the init segment at the head of the list of its first iteration and in
\* the list of no later iteration; with readyState 0 on the first iteration
\* the list is the init segment alone. A new inner buffer has its first
\* iteration ahead; the first iteration, unless the index throws, hands the
\* init segment before anything else; a later iteration does not hand it.
C26_InitSegmentOnFirstIteration ==
  /\ [](buffer.status = "running" =>
          \A timing \in {t \in Timings : ~tickThrows(t)},
             bufferSize \in BufferSizes :
            LET list == ListToInject(timing, bufferSize)
            IN /\ buffer.first =>
                    /\ list # <<>>
                    /\ list[1] = getInitSegment(buffer.rep)
                    /\ timing.readyState = 0 => Len(list) = 1
               /\ \A i \in DOMAIN list :
                    list[i].init => (i = 1 /\ buffer.first))
  /\ [][/\ (/\ buffer'.status = "running"
            /\ \/ buffer'.gen # buffer.gen
               \/ buffer.status = "backoff") => buffer'.first
        /\ (/\ buffer.status = "running"
            /\ buffer'.status = "running"
            /\ buffer'.gen = buffer.gen) =>
             /\ (/\ buffer.first
                 /\ ~buffer'.first
                 /\ history'.failed # OutOfIndexError) =>
                  /\ getInitSegment(buffer.rep).id \in history'.handed
                  /\ Pipeline'[1].segment.init
             /\ ~buffer.first =>
                  getInitSegment(buffer.rep).id \notin history'.handed]_vars

\* An inner buffer that is not the first one of the run has made its first
\* iteration and handed its init segment, and nothing else.
C26_Witness ==
  /\ buffer.status = "running"
  /\ buffer.gen >= 2
  /\ ~buffer.first
  /\ history.handed = {getInitSegment(buffer.rep).id}
  /\ Len(Pipeline) = 1
  /\ Pipeline[1].segment.init

\* The step that led to the current state was a tick of the inner loop: it
\* handed segments to the pipeline or its lookup of the index threw.
AfterTick == history.handed # {} \/ history.failed = OutOfIndexError

\* C27 (as stated): after the resync of a tick, whatever the media type
\* (audio, video, text, image), the union of the Buffered Range Map is a
\* subset of the union of the buffered ranges of the sink.
C27_MapWithinSinkAfterTick ==
  AfterTick => RangesSubset(ranges, sourceBuffer.buffered)

\* C27 amended: the same for audio and video buffers only; the map of a
\* buffer of another type is not compared with the sink.
C27_MapWithinSinkAfterAVTick ==
  (AfterTick /\ buffer.bufferType \in {"audio", "video"}) =>
    RangesSubset(ranges, sourceBuffer.buffered)

\* A tick of a video buffer has found the map different from the buffered
\* ranges of the sink and has cut it down to them.
C27_Witness ==
  /\ AfterTick
  /\ buffer.bufferType \in {"audio", "video"}
  /\ ranges # <<>>
  /\ \E i \in DOMAIN ranges :
       /\ ranges[i].start % SegDur # 0
       /\ \E j \in DOMAIN sourceBuffer.buffered :
            sourceBuffer.buffered[j].start = ranges[i].start

\* The media segment a segment event is about, as the index of the
\* content describes it.
SegmentOfEvent(e) ==
  Segment(e.id[1], e.id[2], SegDur, FALSE, 0)

\* The map as the next tick would see it: resynced with the sink for audio
\* and video.
MapAtNextTick ==
  IF isAVBuffer(buffer.bufferType) /\ ~equals(ranges, sourceBuffer.buffered)
  THEN intersect(ranges, sourceBuffer.buffered)
  ELSE ranges

C33_InitHandedBeforeMedia ==
  buffer.status = "running" =>
    /\ (\E id \in history.handed : id[2] >= 0) => history.initHanded
    /\ (\E i \in DOMAIN Pipeline : ~Pipeline[i].segment.init) =>
         history.initHanded

\* The ids a segment of the content can have: init or media segment of a
\* representation.
SegmentIds ==
  {<<representation.id, time>> :
     representation \in Representations, time \in {-1, 0, SegDur}}

\* C31 (as stated): under SpecLive a segment id that is in the queued set of
\* the running inner buffer eventually leaves it (with its segment event, or
\* because the inner buffer is replaced) or the output terminates with an
\* error: no id stays queued forever, whatever the garbage collector does
\* after a QuotaExceededError.
C31_QueuedEventuallyLeaves ==
  \A id \in SegmentIds :
    (id \in buffer.queuedSegments)
      ~> (id \notin buffer.queuedSegments \/ buffer.status = "error")

(***************************************************************************)
(* Specification SpecWindow: the size of the injection window computed by  *)
(* getSegmentsListToInject for a timing and a buffer size.                 *)
(***************************************************************************)
WindowPositions == {0, 10, 50, 90}
WindowDurations == {NoDuration, 0, 50, 80}
WindowLiveGaps == {Infinity, 0, 5, 45}
WindowBufferSizes == {0, 30, 60}

WindowInit ==
  /\ \E ts \in WindowPositions, duration \in WindowDurations,
        liveGap \in WindowLiveGaps, bufferSize \in WindowBufferSizes :
       buffer = [pc |-> "window",
                 timing |-> [ts |-> ts, readyState |-> 1,
                             duration |-> duration, liveGap |-> liveGap],
                 bufferSize |-> bufferSize,
                 computed |-> FALSE, wantedBufferSize |-> 0]
  /\ sourceBuffer = [pc |-> "off"]
  /\ ranges = <<>>
  /\ output = [pc |-> "off"]
  /\ history = [pc |-> "off"]
  /\ tl = IdleTl
  /\ sk = IdleSk
  /\ abr = IdleAbr

\* The tick computes wantedBufferSize.
WindowCompute ==
  /\ buffer.pc = "window"
  /\ ~buffer.computed
  /\ buffer' = [buffer EXCEPT
                  !.computed = TRUE,
                  !.wantedBufferSize =
                    wantedBufferSizeOf(buffer.timing, buffer.bufferSize)]
  /\ UNCHANGED <<sourceBuffer, ranges, output, history, tl, sk, abr>>

WindowNext == WindowCompute

SpecWindow == WindowInit /\ [][WindowNext]_vars

\* C29 (as stated): wantedSize = max(0, min(wantedBufferSize, liveGap,
\* endDiff)) with endDiff = duration - currentTime when the clock has a
\* duration, a duration of 0 included, and infinity when it has none;
\* wantedSize is not negative and does not exceed the time left before the
\* end of the content.
C29_WindowWithinContent ==
  buffer.computed =>
    LET timing == buffer.timing
        endDiff == IF timing.duration = NoDuration THEN Infinity
                   ELSE timing.duration - timing.ts
    IN /\ buffer.wantedBufferSize =
            Max(0, Min(buffer.bufferSize, Min(timing.liveGap, endDiff)))
       /\ buffer.wantedBufferSize >= 0
       /\ timing.duration # NoDuration =>
            buffer.wantedBufferSize <= Max(0, timing.duration - timing.ts)

(***************************************************************************)
(* Specification SpecLock: two Buffer instances built on one sourceBuffer. *)
(* Each instance has its own updateEnd, that is its own listeners on the   *)
(* update event of the sink, and its own concatMap of locked operations.   *)
(***************************************************************************)
\* Bound of the operations an instance may hold behind the one it runs.
MaxPending == 2

Instances == {1, 2}
OperationKinds == {"append", "remove"}

\* An instance: idle, waiting for the lock ("wait"), waiting for the update
\* of the operation it issued ("busy"), or ended by the error of a call.
LkIdle == [st |-> "idle", cur |-> "none", todo |-> <<>>]

\* func(data) of lockedBufferFunction: sourceBuffer.appendBuffer or
\* sourceBuffer.remove, then first(updateEnd). The sink throws
\* InvalidStateError when it is updating.
sharedSinkCall(w, i, kind) ==
  IF w.sb.updating
  THEN [w EXCEPT !.h.calledWhileUpdating = @ \cup {i},
                 !.b[i] = [LkIdle EXCEPT !.st = "error"]]
  ELSE [w EXCEPT !.sb.updating = TRUE, !.sb.op = kind,
                 !.b[i].st = "busy", !.b[i].cur = kind]

\* The deferred body of lockedBufferFunction for instance i.
sharedLockedCall(w, i, kind) ==
  IF lockedBufferFunction(w.sb.updating)
  THEN [w EXCEPT !.b[i].st = "wait", !.b[i].cur = kind]
  ELSE sharedSinkCall(w, i, kind)

\* The listener of instance i on the update event.
sharedOnUpdate(w, i) ==
  CASE w.b[i].st = "wait" -> sharedSinkCall(w, i, w.b[i].cur)
    [] w.b[i].st = "busy" ->
         IF w.b[i].todo = <<>>
         THEN [w EXCEPT !.b[i] = LkIdle]
         ELSE sharedLockedCall([w EXCEPT !.b[i].todo = Tail(@)], i,
                               Head(w.b[i].todo))
    [] OTHER -> w

\* The update event is dispatched to the listeners in the order of their
\* registration.
RECURSIVE dispatchUpdate(_, _)
dispatchUpdate(w, listeners) ==
  IF listeners = <<>> THEN w
  ELSE dispatchUpdate(sharedOnUpdate(w, Head(listeners)), Tail(listeners))

LkWorld == [sb |-> sourceBuffer, b |-> buffer, h |-> history]

LkCommit(w) ==
  /\ sourceBuffer' = w.sb
  /\ buffer' = w.b
  /\ history' = w.h
  /\ UNCHANGED <<ranges, output, tl, sk, abr>>

LkInit ==
  /\ \E first \in Instances :
       sourceBuffer = [updating |-> FALSE, op |-> "none",
                       listeners |-> <<first, 3 - first>>]
  /\ buffer = [i \in Instances |-> LkIdle]
  /\ history = [calledWhileUpdating |-> {}]
  /\ ranges = <<>>
  /\ output = [pc |-> "off"]
  /\ tl = IdleTl
  /\ sk = IdleSk
  /\ abr = IdleAbr

\* An instance gets a blob to append or a range to remove: its concatMap
\* runs it at once when it is idle, and holds it otherwise.
LkOperation ==
  \E i \in Instances, kind \in OperationKinds :
    /\ buffer[i].st # "error"
    /\ Len(buffer[i].todo) < MaxPending
    /\ LkCommit(IF buffer[i].st = "idle"
                THEN sharedLockedCall(LkWorld, i, kind)
                ELSE [LkWorld EXCEPT !.b[i].todo = Append(@, kind)])

\* The sink fires update for its outstanding operation.
LkUpdate ==
  /\ sourceBuffer.updating
  /\ LkCommit(dispatchUpdate(
       [LkWorld EXCEPT !.sb.updating = FALSE, !.sb.op = "none"],
       sourceBuffer.listeners))

LkNext ==
  \/ LkOperation
  \/ LkUpdate

SpecLock == LkInit /\ [][LkNext]_vars

\* C2 (as stated): with two Buffer instances on one sourceBuffer, no
\* instance calls appendBuffer or remove while the sink is updating because
\* of the other instance, also when both wait for the same update event.
C2_LockSpansInstances ==
  history.calledWhileUpdating = {}

(***************************************************************************)
(* Specification SpecTimeline: queries on bounded well-formed timelines    *)
(***************************************************************************)
\* Bounds of the timelines drawn.
MaxEntries == 2
MaxUp == 8

Durations == {2, 3}
Repeats == {-1, 0, 1}
Gaps == {0, 1}
Windows == {1, 3, 7}
RepId == 1
Timescales == {1, 2, 4}

\* Where the entry following an entry may start: right at its end or after a
\* gap. An entry with a negative r repeats until the next entry, which
\* then starts at most three durations later, not necessarily on a multiple.
NextStarts(e) ==
  IF e.r >= 0
  THEN {getTimelineRangeEnd(e) + g : g \in Gaps}
  ELSE {e.ts + 2 * e.d, e.ts + 2 * e.d + 1}

\* Well-formed timelines of exactly n entries starting at tick ts: strictly
\* increasing ts, no overlap, positive durations except for an optional
\* open-ended (d = -1) last entry.
RECURSIVE TimelinesFrom(_, _)
TimelinesFrom(n, ts) ==
  IF n = 0 THEN {<<>>}
  ELSE IF n = 1
       THEN {<<[ts |-> ts, d |-> d, r |-> r]>> : d \in Durations, r \in Repeats}
            \cup {<<[ts |-> ts, d |-> -1, r |-> 0]>>}
       ELSE UNION { UNION { { <<[ts |-> ts, d |-> d, r |-> r]>> \o rest :
                              rest \in TimelinesFrom(n - 1, nxt) } :
                            nxt \in NextStarts([ts |-> ts, d |-> d, r |-> r]) } :
                    d \in Durations, r \in Repeats }

WellFormedTimelines ==
  UNION { TimelinesFrom(n, ts) : n \in 1..MaxEntries, ts \in {0, 2} }


TlInit ==
  /\ \E timeline \in WellFormedTimelines, timescale \in Timescales,
        pto \in {0, 1}, startNumber \in {0, 1} :
       tl = [pc |-> "ready",
             index |-> [timeline |-> timeline, timescale |-> timescale,
                        presentationTimeOffset |-> pto,
                        startNumber |-> startNumber],
             up |-> 0, to |-> 0, segments |-> <<>>,
             halves |-> 0, discontinuity |-> MinusOne]
  /\ sk = IdleSk
  /\ abr = IdleAbr
  /\ BufferIdle

\* One call of getSegments(repId, index, up, to).
TlGetSegments ==
  /\ tl.pc = "ready"
  /\ \E up \in 0..MaxUp, w \in Windows :
       tl' = [tl EXCEPT !.pc = "queried", !.up = up, !.to = up + w,
                        !.segments = getSegments(RepId, tl.index, up, up + w)]
  /\ UNCHANGED <<sk, abr, bufferVars>>

\* One call of checkDiscontinuity(index, time), time = halves / 2 seconds.
TlCheckDiscontinuity ==
  /\ tl.pc = "ready"
  /\ \E halves \in -1..(2 * MaxUp) :
       tl' = [tl EXCEPT !.pc = "checked", !.halves = halves,
                        !.discontinuity = checkDiscontinuity(tl.index, halves)]
  /\ UNCHANGED <<sk, abr, bufferVars>>

TlNext ==
  \/ TlGetSegments
  \/ TlCheckDiscontinuity

SpecTimeline == TlInit /\ [][TlNext]_vars

(***************************************************************************)
(* Claims on the timeline index                                            *)
(***************************************************************************)
TlRange == normalizeRange(tl.index, tl.up, tl.to)

\* Largest segment duration of the timeline (0 when it has none).
TlMaxDuration ==
  LET ds == {tl.index.timeline[i].d : i \in DOMAIN tl.index.timeline} \cup {0}
  IN CHOOSE d \in ds : \A e \in ds : e <= d

TlAscending ==
  \A i, j \in DOMAIN tl.segments :
    i < j => tl.segments[i].time < tl.segments[j].time

TlDistinctIds ==
  \A i, j \in DOMAIN tl.segments :
    i # j => tl.segments[i].id # tl.segments[j].id

TlBelowTo == \A i \in DOMAIN tl.segments : tl.segments[i].time < TlRange.to

\* C10 as stated: every reference returned by getSegments(repId, up, to) has
\* a time below to and not earlier than up minus the largest segment
\* duration of the timeline; the references are in strictly ascending time
\* order and their ids are pairwise distinct.
C10_AllReferencesInWindow ==
  tl.pc = "queried" =>
    /\ TlAscending
    /\ TlDistinctIds
    /\ TlBelowTo
    /\ \A i \in DOMAIN tl.segments :
         tl.segments[i].time >= TlRange.up - TlMaxDuration

\* C10 amended: the window bounds hold for the references that carry a
\* duration. The open-ended reference of a d = -1 entry (duration undefined)
\* may start before up minus the largest duration, and starts at or below to
\* (strictly below as soon as the timeline holds an entry with a duration).
\* Ascending order and distinct ids hold for every reference.
C10_ClosedReferencesInWindow ==
  tl.pc = "queried" =>
    /\ TlAscending
    /\ TlDistinctIds
    /\ \A i \in DOMAIN tl.segments :
         IF tl.segments[i].open
         THEN /\ tl.segments[i].time <= TlRange.to
              /\ TlMaxDuration > 0 => tl.segments[i].time < TlRange.to
         ELSE /\ tl.segments[i].time < TlRange.to
              /\ tl.segments[i].time >= TlRange.up - TlMaxDuration

\* Witness of C10: a query answered with several references, the last one
\* open-ended, starting from a window that begins inside the timeline.
C10_Witness ==
  /\ tl.pc = "queried"
  /\ Len(tl.segments) >= 3
  /\ tl.segments[Len(tl.segments)].open
  /\ TlRange.up > tl.index.timeline[1].ts

\* The entry checkDiscontinuity(time) is about (1-based): the last entry
\* that starts strictly before time, the first entry when there is none.
TlCurrentEntry ==
  LET before == {i \in DOMAIN tl.index.timeline :
                   2 * tl.index.timeline[i].ts < tl.halves * tl.index.timescale}
  IN IF before = {} THEN 1 ELSE CHOOSE i \in before : \A j \in before : j <= i

\* time lies in the range of the current entry, at most window ticks (less
\* than window ticks when strict) before its end ts + (r + 1) * d.
TlNearRangeEnd(window, strict) ==
  LET e == tl.index.timeline[TlCurrentEntry]
      end == e.ts + (e.r + 1) * e.d
      time2 == tl.halves * tl.index.timescale
  IN /\ 2 * e.ts <= time2
     /\ time2 <= 2 * end
     /\ IF strict THEN 2 * end - time2 < 2 * window
                  ELSE 2 * end - time2 <= 2 * window

\* The current entry is followed by an entry that does not start at its end.
TlNextEntryApart ==
  /\ TlCurrentEntry < Len(tl.index.timeline)
  /\ LET e == tl.index.timeline[TlCurrentEntry]
     IN tl.index.timeline[TlCurrentEntry + 1].ts # e.ts + (e.r + 1) * e.d

\* The entry checkDiscontinuity(time) is about carries a duration and is
\* followed by an entry apart from it, and time is positive.
TlMayBeDiscontinuity ==
  /\ tl.halves > 0
  /\ TlNextEntryApart
  /\ tl.index.timeline[TlCurrentEntry].d # -1

\* The result of the last checkDiscontinuity call is the start of the next
\* entry, in seconds, when time is within the window before the end of the
\* current entry, and -1 when it is not within the window or at its edge.
TlDiscontinuityIff(within, withinOrAtEdge) ==
  /\ (TlMayBeDiscontinuity /\ within) =>
       tl.discontinuity =
         Seconds(tl.index.timeline[TlCurrentEntry + 1].ts, tl.index.timescale)
  /\ ~(TlMayBeDiscontinuity /\ withinOrAtEdge) => tl.discontinuity = MinusOne

\* C23 (as stated): checkDiscontinuity(time) returns the start of the next
\* entry, in seconds, if and only if time lies within the last tick of the
\* range of the current entry and the next entry does not start at
\* ts + (r + 1) * d of the current entry; otherwise it returns -1, in
\* particular for every time <= 0, for the last entry and for an open-ended
\* entry. A time exactly one tick before the end may count either way.
C23_DiscontinuityInLastTick ==
  tl.pc = "checked" =>
    TlDiscontinuityIff(TlNearRangeEnd(1, TRUE), TlNearRangeEnd(1, FALSE))

\* C23 amended: the same with the last second of the range of the current
\* entry in place of its last tick: time is in the range and less than
\* timescale ticks before its end.
C23_DiscontinuityInLastSecond ==
  tl.pc = "checked" =>
    TlDiscontinuityIff(TlNearRangeEnd(tl.index.timescale, TRUE),
                       TlNearRangeEnd(tl.index.timescale, TRUE))

\* A discontinuity reported for a time strictly inside the last second of
\* the current entry, its value being a fraction of a second.
C23_Witness ==
  /\ tl.pc = "checked"
  /\ tl.discontinuity # MinusOne
  /\ tl.discontinuity.den = 2
  /\ TlCurrentEntry = 1
  /\ tl.halves * tl.index.timescale
       < 2 * getTimelineRangeEnd(tl.index.timeline[1])

\* Whether the result of the query holds a reference starting at time.
TlHasReference(time) ==
  \E i \in DOMAIN tl.segments : tl.segments[i].time = time

\* C21 (as stated): for an entry with a negative r followed by another
\* entry, the repeat count is ceil((next.ts - ts) / d) - 1, and the result of
\* getSegments holds a reference at ts + k * d for every k up to that count
\* whose segment [ts + k * d, ts + (k + 1) * d) overlaps the window [up, to).
C21_NegativeRepeatUntilNext ==
  tl.pc = "queried" =>
    \A i \in 1..(Len(tl.index.timeline) - 1) :
      LET e == tl.index.timeline[i]
          next == tl.index.timeline[i + 1]
      IN (e.r < 0 /\ e.d > 0) =>
           \A k \in 0..(CeilDiv(next.ts - e.ts, e.d) - 1) :
             (/\ e.ts + k * e.d < TlRange.to
              /\ e.ts + (k + 1) * e.d > TlRange.up) =>
               TlHasReference(e.ts + k * e.d)

\* Number of segments an entry of the timeline stands for: r + 1, or up to
\* the start of the next entry when r is negative; one for an open-ended
\* entry.
TlSegmentsOfEntry(i) ==
  LET e == tl.index.timeline[i]
  IN IF e.d < 0 THEN 1
     ELSE IF e.r >= 0 THEN e.r + 1
     ELSE IF i < Len(tl.index.timeline)
          THEN CeilDiv(tl.index.timeline[i + 1].ts - e.ts, e.d)
          ELSE 0

RECURSIVE TlSegmentsBefore(_)
TlSegmentsBefore(i) ==
  IF i <= 1 THEN 0 ELSE TlSegmentsBefore(i - 1) + TlSegmentsOfEntry(i - 1)

\* 0-based position in the timeline of the segment that starts at time,
\* repetitions counted.
TlPosition(time) ==
  LET i == CHOOSE j \in DOMAIN tl.index.timeline :
             /\ tl.index.timeline[j].ts <= time
             /\ \A k \in DOMAIN tl.index.timeline :
                  tl.index.timeline[k].ts <= time => k <= j
      e == tl.index.timeline[i]
  IN TlSegmentsBefore(i) + (IF e.d < 0 THEN 0 ELSE (time - e.ts) \div e.d)

\* C30 (as stated): the reference of a segment carries startNumber plus the
\* 0-based position of the segment in the timeline, repetitions counted:
\* the same number in every call, whatever the window, and consecutive
\* numbers for the consecutive references of a result.
C30_NumberIsPositionFromStartNumber ==
  tl.pc = "queried" =>
    \A i \in DOMAIN tl.segments :
      tl.segments[i].number
        = tl.index.startNumber + TlPosition(tl.segments[i].time)

(***************************************************************************)
(* Specification SpecAdd: sequences of _addSegmentInfos calls on an index. *)
(***************************************************************************)
\* Bounds: number of calls of a run, largest time of a new segment (in
\* ticks of the index).
MaxAddCalls == 2
MaxAddTime == 8

AddDurations == {2, 3}
SegmentTimescales == {1, 2}

\* (value / from) * timescale of the source, on values that are multiples
\* of from; the value itself when the timescales are equal.
rescale(value, from, timescale) ==
  IF from = timescale THEN value ELSE (value \div from) * timescale

\* _addSegmentInfos(index, newSegment, currentSegment): the timeline it
\* leaves and the value it returns. currentSegment is <<>> when not given.
addSegmentInfos(index, newSegment, currentSegment) ==
  LET timeline == index.timeline
      timescale == index.timescale
      timelineLength == Len(timeline)
      last == timeline[timelineLength]
      scaledNewSegment ==
        [time |-> rescale(newSegment.time, newSegment.timescale, timescale),
         duration |-> rescale(newSegment.duration, newSegment.timescale,
                              timescale)]
      shouldDeductNextSegment ==
        /\ currentSegment # <<>>
        /\ scaledNewSegment.time =
             rescale(currentSegment[1].time, currentSegment[1].timescale,
                     timescale)
      newSegmentTs == scaledNewSegment.time + scaledNewSegment.duration
      lastSegmentTs == last.ts + last.d * last.r
      tsDiff == newSegmentTs - lastSegmentTs
      hasPrev == timelineLength >= 2
      compacted ==
        IF last.d # -1 THEN timeline
        ELSE IF hasPrev /\ timeline[timelineLength - 1].d = tsDiff
             THEN [SubSeq(timeline, 1, timelineLength - 1)
                     EXCEPT ![timelineLength - 1].r = @ + 1]
             ELSE [timeline EXCEPT ![timelineLength].d = tsDiff]
  IN IF shouldDeductNextSegment
     THEN IF tsDiff <= 0
          THEN [timeline |-> timeline, returned |-> FALSE]
          ELSE [timeline |-> Append(compacted,
                                    [ts |-> newSegmentTs, d |-> -1, r |-> 0]),
                returned |-> TRUE]
     ELSE IF scaledNewSegment.time >= getTimelineRangeEnd(last)
          THEN [timeline |->
                  IF last.d = scaledNewSegment.duration
                  THEN [timeline EXCEPT ![timelineLength].r = @ + 1]
                  ELSE Append(timeline, [ts |-> scaledNewSegment.time,
                                         d |-> scaledNewSegment.duration,
                                         r |-> 0]),
                returned |-> TRUE]
          ELSE [timeline |-> timeline, returned |-> FALSE]

\* The timelines a run starts from: strictly increasing ts, no overlap, at
\* most one open-ended (d = -1) entry, the last one.
AddTimelines ==
  { <<[ts |-> 0, d |-> 2, r |-> 0]>>,
    <<[ts |-> 0, d |-> 2, r |-> 1]>>,
    <<[ts |-> 0, d |-> -1, r |-> 0]>>,
    <<[ts |-> 0, d |-> 2, r |-> 0], [ts |-> 2, d |-> -1, r |-> 0]>>,
    <<[ts |-> 0, d |-> 3, r |-> 0], [ts |-> 4, d |-> 2, r |-> 1]>> }

\* The segments a call may be given: times and durations that are whole
\* ticks of the index, expressed in the timescale of the segment.
NewSegments ==
  {[time |-> t * k, duration |-> d * k, timescale |-> k] :
     t \in 0..MaxAddTime, d \in AddDurations, k \in SegmentTimescales}

\* No current segment, the current segment at the time of the new one
\* (given in either timescale), or the current segment one tick earlier.
CurrentSegments(newSegment) ==
  {<<>>}
  \cup {<<[time |-> (newSegment.time \div newSegment.timescale) * k,
           timescale |-> k]>> : k \in SegmentTimescales}
  \cup {<<[time |-> newSegment.time - newSegment.timescale,
           timescale |-> newSegment.timescale]>>}

AddInit ==
  /\ \E timeline \in AddTimelines :
       tl = [pc |-> "add", calls |-> 0,
             index |-> [timeline |-> timeline, timescale |-> 1],
             before |-> timeline, newSegment |-> <<>>,
             currentSegment |-> <<>>, returned |-> FALSE]
  /\ sk = IdleSk
  /\ abr = IdleAbr
  /\ BufferIdle

\* One call of _addSegmentInfos(index, newSegment, currentSegment).
AddSegmentInfos ==
  /\ tl.pc = "add"
  /\ tl.calls < MaxAddCalls
  /\ \E newSegment \in NewSegments :
       \E currentSegment \in CurrentSegments(newSegment) :
         LET res == addSegmentInfos(tl.index, newSegment, currentSegment)
         IN tl' = [tl EXCEPT !.calls = @ + 1,
                             !.before = tl.index.timeline,
                             !.index.timeline = res.timeline,
                             !.newSegment = <<newSegment>>,
                             !.currentSegment = currentSegment,
                             !.returned = res.returned]
  /\ UNCHANGED <<sk, abr, bufferVars>>

AddNext == AddSegmentInfos

SpecAdd == AddInit /\ [][AddNext]_vars

\* Whether the last call ran in deduction mode.
AddDeducted ==
  /\ tl.currentSegment # <<>>
  /\ rescale(tl.newSegment[1].time, tl.newSegment[1].timescale, 1)
       = rescale(tl.currentSegment[1].time, tl.currentSegment[1].timescale, 1)

\* C11 (as stated): when a call of _addSegmentInfos has returned true, in
\* deduction mode or in append mode, the same call made again returns false
\* and leaves the timeline as the first call left it.
C11_AddIdempotent ==
  (tl.calls > 0 /\ tl.returned) =>
    LET again == addSegmentInfos(tl.index, tl.newSegment[1], tl.currentSegment)
    IN ~again.returned /\ again.timeline = tl.index.timeline

\* C12 (as stated): after any sequence of calls on a timeline whose ts are
\* strictly increasing, the ts of the entries are strictly increasing.
C12_TsStrictlyIncreasing ==
  \A i \in 1..(Len(tl.index.timeline) - 1) :
    tl.index.timeline[i].ts < tl.index.timeline[i + 1].ts

\* C13 (as stated): after any sequence of calls at most one entry has
\* d = -1, and it is the last entry of the timeline.
C13_OpenEntryOnlyLast ==
  \A i \in 1..(Len(tl.index.timeline) - 1) :
    tl.index.timeline[i].d # -1

\* End of the last entry of the timeline the last call was given,
\* repetitions included; an open-ended entry ends where it starts.
AddLastEnd ==
  LET last == tl.before[Len(tl.before)]
  IN IF last.d < 0 THEN last.ts ELSE getTimelineRangeEnd(last)

\* The start the last call deduces: newSegment.time + newSegment.duration,
\* in ticks of the index.
AddDeducedTs ==
  rescale(tl.newSegment[1].time, tl.newSegment[1].timescale, 1)
    + rescale(tl.newSegment[1].duration, tl.newSegment[1].timescale, 1)

\* C22 (as stated): in deduction mode the call returns false and leaves the
\* timeline unchanged whenever the deduced start is at or before the end of
\* the last entry, repetitions included; when it returns true the new
\* open-ended entry starts at or after that end.
C22_DeductionBehindEndRejected ==
  (tl.calls > 0 /\ AddDeducted) =>
    /\ AddDeducedTs <= AddLastEnd =>
         (~tl.returned /\ tl.index.timeline = tl.before)
    /\ tl.returned =>
         LET new == tl.index.timeline[Len(tl.index.timeline)]
         IN new.d = -1 /\ new.ts = AddDeducedTs /\ new.ts >= AddLastEnd

\* The new segment of the last call in ticks of the index.
AddScaledNewSegment ==
  [time |-> rescale(tl.newSegment[1].time, tl.newSegment[1].timescale, 1),
   duration |-> rescale(tl.newSegment[1].duration, tl.newSegment[1].timescale, 1)]

\* The references getSegments gives for the window that spans the new
\* segment of the last call, on the timeline the call left.
AddSegmentsAtNewSegment ==
  getSegments(RepId, [timeline |-> tl.index.timeline, timescale |-> tl.index.timescale, presentationTimeOffset |-> 0, startNumber |-> 0], AddScaledNewSegment.time, AddScaledNewSegment.time + AddScaledNewSegment.duration)

\* C32 (as stated): after a call in append mode that returned true the
\* timeline describes a segment that starts at newSegment.time and lasts
\* newSegment.duration: getSegments on the window of the new segment gives a
\* reference with that time and that duration, also when newSegment.time is
\* strictly after the end of the last entry. Stated for a call on a
\* timeline without open-ended entry, which is where the append branch has
\* an end of the last entry to compare with.
C32_AppendedSegmentDescribed ==
  (/\ tl.calls > 0 /\ ~AddDeducted /\ tl.returned
   /\ \A i \in DOMAIN tl.before : tl.before[i].d >= 0) =>
    \E i \in DOMAIN AddSegmentsAtNewSegment :
      /\ AddSegmentsAtNewSegment[i].time = AddScaledNewSegment.time
      /\ AddSegmentsAtNewSegment[i].duration = AddScaledNewSegment.duration

(***************************************************************************)
(* Specification SpecABR: the ABR manager, src/src/core/abr/index.js.      *)
(* Every action is one call of its interface or one event of metrics$ or   *)
(* of a request of requests$.                                              *)
(***************************************************************************)
\* Bound: number of calls and events of a run.
MaxAbrSteps == 4

AbrTypes == {"audio", "video"}
RequestEvents == {"requestBegin", "progress", "requestEnd"}
AbrEvents == {"metrics"} \cup RequestEvents
SetManualBitrates == {-1, 1000}
SetMaxAutoBitrates == {2000}

\* The options the manager is built with, per type.
AbrOptions ==
  { [initialBitrates |-> [t \in AbrTypes |-> 0],
     manualBitrates |-> [t \in AbrTypes |-> -1],
     maxAutoBitrates |-> [t \in AbrTypes |-> Infinity]],
    [initialBitrates |-> [t \in AbrTypes |-> IF t = "video" THEN 300 ELSE 0],
     manualBitrates |-> [t \in AbrTypes |-> IF t = "video" THEN 500 ELSE -1],
     maxAutoBitrates |-> [t \in AbrTypes |-> 3000]] }

\* new RepresentationChooser(options): manualBitrate$ and maxAutoBitrate$
\* are BehaviorSubjects holding the option; received is what the manager
\* called on it, disposed the number of dispose() calls.
RepresentationChooser(options) ==
  [initialBitrate |-> options.initialBitrate,
   manualBitrate |-> options.manualBitrate,
   maxAutoBitrate |-> options.maxAutoBitrate,
   received |-> <<>>, disposed |-> 0]

createChooser(type, options) ==
  RepresentationChooser(
    [initialBitrate |-> options.initialBitrates[type],
     manualBitrate |-> options.manualBitrates[type],
     maxAutoBitrate |-> options.maxAutoBitrates[type]])

\* lazilyAttachChooser(instce, bufferType); the variant attaches a new
\* chooser on every call.
alwaysAttachChooser(a, bufferType) ==
  [a EXCEPT !.choosers[bufferType] = <<createChooser(bufferType, a.options)>>,
            !.created[bufferType] = @ + 1]
lazilyAttachChooser(a, bufferType) ==
  IF a.choosers[bufferType] = <<>>
  THEN [a EXCEPT !.choosers[bufferType] =
                   <<createChooser(bufferType, a.options)>>,
                 !.created[bufferType] = @ + 1]
  ELSE a

\* The method of the chooser an event is for.
chooserMethod(event) ==
  CASE event = "metrics" -> "addEstimate"
    [] event = "requestBegin" -> "addPendingRequest"
    [] event = "progress" -> "addRequestProgress"
    [] event = "requestEnd" -> "removePendingRequest"

\* The subscriber of metrics$ and the one of requests$: the chooser of the
\* type is attached, then called. n numbers the event.
forwardEvent(a, type, event, n) ==
  LET a1 == lazilyAttachChooser(a, type)
  IN [a1 EXCEPT !.choosers[type][1].received =
                  Append(@, [method |-> chooserMethod(event), n |-> n])]

\* takeUntil(this._dispose$): whether the subscriber still gets the events;
\* the variant never unsubscribes.
neverUnsubscribed(alive) == TRUE
takeUntilDispose(alive) == alive

\* chooser.dispose() on every chooser of this._choosers; the variant leaves
\* them alone.
leaveChoosers(choosers) == choosers
disposeChoosers(choosers) ==
  [t \in DOMAIN choosers |->
     IF choosers[t] = <<>> THEN <<>>
     ELSE <<[choosers[t][1] EXCEPT !.disposed = @ + 1]>>]

\* setManualBitrate(type, bitrate)
setManualBitrate(a, type, bitrate) ==
  IF a.choosers[type] = <<>>
  THEN [a EXCEPT !.options.initialBitrates[type] = bitrate]
  ELSE [a EXCEPT !.choosers[type][1].manualBitrate = bitrate]

\* setMaxAutoBitrate(type, bitrate)
setMaxAutoBitrate(a, type, bitrate) ==
  IF a.choosers[type] = <<>>
  THEN [a EXCEPT !.options.maxAutoBitrates[type] = bitrate]
  ELSE [a EXCEPT !.choosers[type][1].maxAutoBitrate = bitrate]

\* getManualBitrate(type), getMaxAutoBitrate(type)
getManualBitrate(a, type) ==
  IF a.choosers[type] # <<>> THEN a.choosers[type][1].manualBitrate
  ELSE a.options.manualBitrates[type]

getMaxAutoBitrate(a, type) ==
  IF a.choosers[type] # <<>> THEN a.choosers[type][1].maxAutoBitrate
  ELSE a.options.maxAutoBitrates[type]

\* The initial bitrate the chooser of the type has, or will be given.
initialBitrateOf(a, type) ==
  IF a.choosers[type] # <<>> THEN a.choosers[type][1].initialBitrate
  ELSE a.options.initialBitrates[type]

\* new ABRManager(requests$, metrics$, options). given, manualSet, maxSet
\* and arrived record the run: the options as given, the last value set by
\* each setter, the events that arrived (late: after dispose()).
AbrInit ==
  /\ \E options \in AbrOptions :
       abr = [pc |-> "on", alive |-> TRUE, steps |-> 0,
              choosers |-> [t \in AbrTypes |-> <<>>],
              created |-> [t \in AbrTypes |-> 0],
              options |-> options, given |-> options,
              manualSet |-> [t \in AbrTypes |-> <<>>],
              maxSet |-> [t \in AbrTypes |-> <<>>],
              arrived |-> <<>>]
  /\ tl = IdleTl
  /\ sk = IdleSk
  /\ BufferIdle

AbrStep(a) ==
  /\ abr.steps < MaxAbrSteps
  /\ abr' = [a EXCEPT !.steps = @ + 1]
  /\ UNCHANGED <<tl, sk, bufferVars>>

\* metrics$ emits, or a request of requests$ emits. After dispose() the
\* subscribers are gone.
AbrEvent ==
  /\ abr.pc = "on"
  /\ \E type \in AbrTypes, event \in AbrEvents :
       LET n == abr.steps + 1
           a == [abr EXCEPT !.arrived =
                   Append(@, [type |-> type, event |-> event, n |-> n,
                              late |-> ~abr.alive])]
       IN AbrStep(IF takeUntilDispose(abr.alive)
                  THEN forwardEvent(a, type, event, n)
                  ELSE a)

\* get$(type, clock$, representations)
AbrGet ==
  /\ abr.alive
  /\ \E type \in AbrTypes : AbrStep(lazilyAttachChooser(abr, type))

AbrSetManualBitrate ==
  /\ abr.alive
  /\ \E type \in AbrTypes, bitrate \in SetManualBitrates :
       AbrStep([setManualBitrate(abr, type, bitrate)
                  EXCEPT !.manualSet[type] = <<bitrate>>])

AbrSetMaxAutoBitrate ==
  /\ abr.alive
  /\ \E type \in AbrTypes, bitrate \in SetMaxAutoBitrates :
       AbrStep([setMaxAutoBitrate(abr, type, bitrate)
                  EXCEPT !.maxSet[type] = <<bitrate>>])

\* dispose(): the choosers are disposed, this._choosers and the options
\* are dropped, _dispose$ emits and completes.
AbrDispose ==
  /\ abr.alive
  /\ AbrStep([abr EXCEPT !.choosers = disposeChoosers(@), !.alive = FALSE])

AbrNext ==
  \/ AbrEvent
  \/ AbrGet
  \/ AbrSetManualBitrate
  \/ AbrSetMaxAutoBitrate
  \/ AbrDispose

SpecABR == AbrInit /\ [][AbrNext]_vars

\* The calls a chooser of the type must have received: one per event of
\* the type that arrived before dispose(), in the order of arrival.
ExpectedCalls(type) ==
  LET mine == SelectSeq(abr.arrived, LAMBDA e : e.type = type /\ ~e.late)
  IN [i \in DOMAIN mine |->
        [method |-> chooserMethod(mine[i].event), n |-> mine[i].n]]

ReceivedCalls(type) ==
  IF abr.choosers[type] = <<>> THEN <<>> ELSE abr.choosers[type][1].received

\* C14 (as stated): once setManualBitrate(type, b) has been called, the
\* manual bitrate of the type is b and getManualBitrate(type) returns b,
\* the chooser existing at the call or being created afterwards; the
\* initial bitrate of the type stays the one given at construction and its
\* max auto bitrate the one given or last set with setMaxAutoBitrate.
C14_ManualBitrateInForce ==
  abr.alive =>
    \A type \in AbrTypes :
      /\ abr.manualSet[type] # <<>> =>
           getManualBitrate(abr, type) = abr.manualSet[type][1]
      /\ initialBitrateOf(abr, type) = abr.given.initialBitrates[type]
      /\ getMaxAutoBitrate(abr, type) =
           IF abr.maxSet[type] # <<>> THEN abr.maxSet[type][1]
           ELSE abr.given.maxAutoBitrates[type]

\* C17: every metrics, requestBegin, progress and requestEnd event of a
\* type is passed exactly once, in the order of arrival, to the matching
\* method of the chooser of that type and to no other chooser; the chooser
\* of a type is created at most once.
C17_EventsRouted ==
  \A type \in AbrTypes :
    /\ abr.created[type] <= 1
    /\ ReceivedCalls(type) = ExpectedCalls(type)

\* Events of both types and of several kinds have been routed.
C17_Witness ==
  /\ abr.alive
  /\ \A type \in AbrTypes : Len(ReceivedCalls(type)) >= 1
  /\ \E type \in AbrTypes :
       /\ Len(ReceivedCalls(type)) >= 2
       /\ ReceivedCalls(type)[1].method # ReceivedCalls(type)[2].method

\* C18: after dispose() no event that arrives is passed to a chooser, and
\* every chooser that existed at the call has been disposed exactly once;
\* before dispose() no chooser is disposed.
C18_DisposeStopsForwarding ==
  \A type \in AbrTypes :
    /\ ReceivedCalls(type) = ExpectedCalls(type)
    /\ abr.choosers[type] # <<>> =>
         abr.choosers[type][1].disposed = (IF abr.alive THEN 0 ELSE 1)
    /\ ~abr.alive => abr.created[type] = Len(abr.choosers[type])

\* An event of the type of a disposed chooser arrived after dispose().
C18_Witness ==
  /\ ~abr.alive
  /\ \E i \in DOMAIN abr.arrived :
       /\ abr.arrived[i].late
       /\ abr.choosers[abr.arrived[i].type] # <<>>
       /\ abr.choosers[abr.arrived[i].type][1].received # <<>>

(***************************************************************************)
(* Specification SpecGC: the garbage collector on bounded buffered ranges. *)
(* A run is one bufferGarbageCollector(): the timing is taken, the ranges  *)
(* are selected, then removed from the sink one after the other.           *)
(***************************************************************************)
\* Bound: number of ranges the sink holds when the collector starts.
MaxGcRanges == 2

\* Bounds of the buffered ranges and positions of the timing, in seconds:
\* ranges shorter and longer than each gap, nearer and farther than each.
GcPoints == {0, 20, 100, 130, 400, 700}
GcPositions == {10, 50, 110, 350, 500}
GcGaps == {GC_GAP_CALM, GC_GAP_BEEFY}

\* Sorted disjoint ranges over the points.
GcBuffered ==
  LET bounds == {S \in SUBSET GcPoints :
                   /\ Cardinality(S) % 2 = 0
                   /\ Cardinality(S) <= 2 * MaxGcRanges}
      rangesOf(S) == LET points == SortedSeq(S)
                     IN [i \in 1..(Len(points) \div 2) |->
                           [start |-> points[2 * i - 1], end |-> points[2 * i],
                            bitrate |-> 0]]
  IN {rangesOf(S) : S \in bounds}

GcInit ==
  /\ \E buffered \in GcBuffered :
       sourceBuffer = [updating |-> FALSE, op |-> NoOp, buffered |-> buffered]
  /\ history = [pc |-> "idle", ts |-> 0, buffered |-> <<>>,
                todo |-> <<>>, removed |-> <<>>]
  /\ ranges = <<>>
  /\ buffer = [pc |-> "off"]
  /\ output = [pc |-> "off"]
  /\ tl = IdleTl
  /\ sk = IdleSk
  /\ abr = IdleAbr

\* timings.take(1) delivers the timing: the ranges to clean are selected.
GcSelect ==
  /\ history.pc = "idle"
  /\ \E ts \in GcPositions :
       history' = [pc |-> "removing", ts |-> ts,
                   buffered |-> sourceBuffer.buffered,
                   todo |-> gcCleanedupRanges(ts, sourceBuffer.buffered),
                   removed |-> <<>>]
  /\ UNCHANGED <<sourceBuffer, ranges, buffer, output, tl, sk, abr>>

\* concatAll: the next lockedRemoveBuffer is run, the sink removes the range
\* and fires update.
GcRemove ==
  /\ history.pc = "removing"
  /\ history.todo # <<>>
  /\ LET range == Head(history.todo)
     IN /\ sourceBuffer' = [sourceBuffer EXCEPT
                              !.buffered = removeRange(@, range.start, range.end)]
        /\ history' = [history EXCEPT !.todo = Tail(@),
                                      !.removed = Append(@, range)]
  /\ UNCHANGED <<ranges, buffer, output, tl, sk, abr>>

GcNext ==
  \/ GcSelect
  \/ GcRemove

SpecGC == GcInit /\ [][GcNext]_vars

\* The gap the collector of the run used: the calm one unless it selected
\* nothing.
GcGapUsed ==
  IF selectGCedRanges(history.ts, history.buffered, GC_GAP_CALM) # <<>>
  THEN GC_GAP_CALM ELSE GC_GAP_BEEFY

\* Whether a selected range is one of the outer ranges of the timing.
GcIsOuter(r) ==
  \E i \in DOMAIN history.buffered :
    /\ history.buffered[i].start = r.start
    /\ history.buffered[i].end = r.end
    /\ ~(r.start <= history.ts /\ history.ts < r.end)

\* C19 (as stated): for each gap, an outer range is selected for removal
\* only if it ends before ts - gap or starts after ts + gap; with every
\* range within 240 s of ts the calm selection is empty.
C19_OnlyDistantOuterRanges ==
  history.pc = "removing" =>
    \A gap \in GcGaps :
      LET selected == selectGCedRanges(history.ts, history.buffered, gap)
      IN \A i \in DOMAIN selected :
           GcIsOuter(selected[i]) =>
             \/ selected[i].end < history.ts - gap
             \/ selected[i].start > history.ts + gap

\* The range that contains the position of the timing, if any.
GcInner == getRange(history.buffered, history.ts)

\* The pieces of the inner range a gap lets go.
GcInnerPieces(gap) ==
  IF GcInner = <<>> THEN {}
  ELSE (IF history.ts - gap > GcInner[1].start
        THEN {[start |-> GcInner[1].start, end |-> history.ts - gap]}
        ELSE {})
       \cup (IF history.ts + gap < GcInner[1].end
             THEN {[start |-> history.ts + gap, end |-> GcInner[1].end]}
             ELSE {})

\* C20: of the range that contains ts the collector selects, for each gap,
\* exactly [innerStart, ts - gap] when ts - gap > innerStart and
\* [ts + gap, innerEnd] when ts + gap < innerEnd; no range selected or
\* passed to the remove of the sink contains ts, and once the removes are
\* done the sink still holds the part of the inner range within the gap
\* used around ts.
C20_InnerRangeKeptAroundPosition ==
  history.pc = "removing" =>
    /\ \A gap \in GcGaps :
         LET selected == selectGCedRanges(history.ts, history.buffered, gap)
         IN /\ {selected[i] : i \in {j \in DOMAIN selected :
                                       ~GcIsOuter(selected[j])}}
                 = GcInnerPieces(gap)
            /\ \A i \in DOMAIN selected :
                 ~(selected[i].start <= history.ts
                     /\ history.ts < selected[i].end)
    /\ \A i \in DOMAIN history.removed :
         ~(history.removed[i].start <= history.ts
             /\ history.ts < history.removed[i].end)
    /\ (history.todo = <<>> /\ GcInner # <<>>) =>
         RangesSubset(
           <<[start |-> Max(GcInner[1].start, history.ts - GcGapUsed),
              end |-> Min(GcInner[1].end, history.ts + GcGapUsed)]>>,
           sourceBuffer.buffered)

\* The collector has cut the inner range on both sides of the position and
\* its removes are done.
C20_Witness ==
  /\ history.pc = "removing"
  /\ history.todo = <<>>
  /\ GcInner # <<>>
  /\ Len(history.removed) >= 2
  /\ \E i, j \in DOMAIN history.removed :
       /\ history.removed[i].start = GcInner[1].start
       /\ history.removed[i].end < history.ts
       /\ history.removed[j].end = GcInner[1].end
       /\ history.removed[j].start > history.ts

(***************************************************************************)
(* Seekings sampler: src/unnamed/part_000, seekingsSampler                 *)
(***************************************************************************)
SEEK_GAP == 2

\* Bound: number of timing ticks delivered to the sampler.
MaxTicks == 3

TimingStates == {"seeking", "playing"}
BufferGaps == {Infinity, -3, -2, 0}

\* The predicate given to .filter().
seekingFilter(timing) ==
  /\ timing.state = "seeking"
  /\ \/ timing.bufferGap = Infinity
     \/ timing.bufferGap < -SEEK_GAP

\* .skip(1): whether a value that passed the filter is dropped, given the
\* number of values that passed it before.
skipNone(seen) == FALSE
skip(seen) == seen < 1

SkInit ==
  /\ sk = [pc |-> "unsubscribed", seen |-> 0, log |-> <<>>, emitted |-> <<>>]
  /\ tl = IdleTl
  /\ abr = IdleAbr
  /\ BufferIdle

\* Subscription: .startWith() emits its value at once, before the source
\* is subscribed to.
SkSubscribe ==
  /\ sk.pc = "unsubscribed"
  /\ sk' = [sk EXCEPT !.pc = "subscribed",
                      !.emitted = <<[synthetic |-> TRUE, tick |-> 0]>>]
  /\ UNCHANGED <<tl, abr, bufferVars>>

\* One timing tick through filter, skip and startWith.
SkTick ==
  /\ sk.pc = "subscribed"
  /\ Len(sk.log) < MaxTicks
  /\ \E st \in TimingStates, gap \in BufferGaps :
       LET timing == [state |-> st, bufferGap |-> gap]
           n == Len(sk.log) + 1
       IN sk' = [sk EXCEPT
                   !.log = Append(@, timing),
                   !.seen = IF seekingFilter(timing) THEN @ + 1 ELSE @,
                   !.emitted = IF seekingFilter(timing) /\ ~skip(sk.seen)
                               THEN Append(@, [synthetic |-> FALSE, tick |-> n])
                               ELSE @]
  /\ UNCHANGED <<tl, abr, bufferVars>>

SkNext == SkSubscribe \/ SkTick

SpecSeekings == SkInit /\ [][SkNext]_vars

\* A tick in a true seeking state, as the claim words it.
TrueSeeking(timing) ==
  /\ timing.state = "seeking"
  /\ (timing.bufferGap = Infinity \/ timing.bufferGap < -2)

\* C9: once subscribed the first emission is the synthetic one, made before
\* any tick; the first true-seeking tick produces no emission, every later
\* true-seeking tick produces exactly one, and no other tick produces any.
C9_SeekingsEmissions ==
  sk.pc = "subscribed" =>
    /\ Len(sk.emitted) >= 1
    /\ sk.emitted[1] = [synthetic |-> TRUE, tick |-> 0]
    /\ \A i \in 2..Len(sk.emitted) :
         /\ ~sk.emitted[i].synthetic
         /\ i > 2 => sk.emitted[i - 1].tick < sk.emitted[i].tick
    /\ {sk.emitted[i].tick : i \in 2..Len(sk.emitted)} =
         {n \in DOMAIN sk.log :
            /\ TrueSeeking(sk.log[n])
            /\ \E m \in 1..(n - 1) : TrueSeeking(sk.log[m])}

\* Witness of C9: two true-seeking ticks and a tick that is not one have been
\* delivered; only the second true-seeking tick was emitted.
C9_Witness ==
  /\ sk.pc = "subscribed"
  /\ Cardinality({n \in DOMAIN sk.log : TrueSeeking(sk.log[n])}) = 2
  /\ \E n \in DOMAIN sk.log : ~TrueSeeking(sk.log[n])
  /\ Len(sk.emitted) = 2

=============================================================================
